---- MODULE Spec2Model ----
(***************************************************************************)
(* Chaos Reviewer: the error-extraction and reply-composition pipeline of  *)
(* src/Chaos Reviewer/Agent.py and of its older variant src/agent/agent.py.*)
(*                                                                         *)
(* Text is modelled at token level.  A text is the sequence of its lines; a    *)
(* line is a diagnostic of one of the structured shapes the regular        *)
(* expressions of _extract_findings recognise, or a line of other text.    *)
(* A message is a sequence of tokens; a token is a word (or a phrase) or a *)
(* run of whitespace.  Lower-casing, substring tests, strip() and          *)
(* re.sub(r'\s+', ' ', .) are computed on tokens.                          *)
(***************************************************************************)
EXTENDS Naturals, Sequences, FiniteSets, TLC

VARIABLES
    impl,          \* which source file runs: "Agent" (src/Chaos Reviewer/Agent.py) or "agent" (src/agent/agent.py)
    log_text,      \* the argument handed to _extract_findings
    ext_result,    \* what _extract_findings returned for log_text (NotRun before the call)
    fx_in,         \* the arguments and oracle outcomes of the last composer call
    fx_out,        \* what that composer call returned
    path,          \* the event source of this run: "chat" messages or the gist "bridge" ("none": no agent runs)
    env,           \* the process environment: which of the configuration variables are set
    booted,        \* the startup event has been handled
    LLM_OK,        \* the global set by _auth_check
    _GREETED_MEMORY, \* agent.py: the senders that were sent the welcome message
    _last_seen_ts, \* Agent.py: _last_seen_ts["ts"], the bridge watermark
    gist_request,  \* the request document of the gist, written by clients
    attempts,      \* the response posts made so far: the ts of the request answered, and whether the post succeeded
    turn           \* the handler run that has just ended, with its input and everything it sent (Idle between runs)

extVars == <<log_text, ext_result>>
fixVars == <<fx_in, fx_out>>
sysVars == <<path, env, booted, LLM_OK, _GREETED_MEMORY, _last_seen_ts, gist_request, attempts, turn>>
notExt == <<fixVars, sysVars>>
notFix == <<extVars, sysVars>>
notSys == <<extVars, fixVars>>
vars == <<impl, extVars, fixVars, sysVars>>

Impls == {"Agent", "agent"}

-----------------------------------------------------------------------------
(* Python values *)

None == [t |-> "None"]
Str(ls) == [t |-> "str", lines |-> ls]
Ret(v) == [run |-> TRUE, exc |-> FALSE, val |-> v]
Raise == [run |-> TRUE, exc |-> TRUE, val |-> <<>>]
NotRun == [run |-> FALSE, exc |-> FALSE, val |-> <<>>]

\* no extraction and no composer call has been made
ExtIdle == log_text = Str(<<>>) /\ ext_result = NotRun
FixIdle == fx_in = [op |-> "none"] /\ fx_out = [op |-> "none"]

\* no handler run is recorded
Idle == [kind |-> "idle"]

\* the request file of the gist is missing or empty
NoFile == [form |-> "nofile"]

EnvNone == [asi_key |-> FALSE, free_llm |-> FALSE, req_gid |-> FALSE, token |-> FALSE]

\* no agent process runs
SysOff ==
    /\ path = "none"
    /\ env = EnvNone
    /\ booted = FALSE
    /\ LLM_OK = FALSE
    /\ _GREETED_MEMORY = {}
    /\ _last_seen_ts = 0
    /\ gist_request = NoFile
    /\ attempts = <<>>
    /\ turn = Idle

-----------------------------------------------------------------------------
(* Tokens *)

\* runs of whitespace: one blank, two blanks, a tab, a line break
WS == {" ", "  ", "\t", "\n"}

RECURSIVE lstrip(_)
lstrip(toks) ==
    IF toks # <<>> /\ Head(toks) \in WS THEN lstrip(Tail(toks)) ELSE toks

RECURSIVE rstrip(_)
rstrip(toks) ==
    IF toks # <<>> /\ toks[Len(toks)] \in WS
    THEN rstrip(SubSeq(toks, 1, Len(toks) - 1))
    ELSE toks

\* str.strip()
strip(toks) == rstrip(lstrip(toks))

\* re.sub(r'\s+', ' ', s): every maximal run of whitespace becomes one blank
RECURSIVE collapse_ws(_)
collapse_ws(toks) ==
    IF toks = <<>> THEN <<>>
    ELSE IF Head(toks) \in WS
         THEN <<" ">> \o collapse_ws(lstrip(toks))
         ELSE <<Head(toks)>> \o collapse_ws(Tail(toks))

\* str.strip() of a file name: the blank file name strips to the empty string
strip_file(f) == IF f \in WS THEN "" ELSE f

-----------------------------------------------------------------------------
(* Lines of text *)

\* A text is the sequence of its lines (no trailing newline, as after strip()).
\* kind "cc":  path:line[:col]: error: msg
\* kind "tbh": File "path", line N, in <module>      (a traceback header)
\* kind "ts":  path(line,col): error TSnnnn: msg
\* kind "txt": any other line, msg holds its tokens
Line(k, f, n, m) == [kind |-> k, file |-> f, line |-> n, msg |-> m]

LineStr(n) == CASE n = 0 -> "0" [] n = 1 -> "1" [] n = 2 -> "2" [] OTHER -> "9"

\* the characters of a line, as tokens
Raw(l) ==
    CASE l.kind = "cc" -> <<l.file, ":", LineStr(l.line), ":", " ", "error:", " ">> \o l.msg
      [] l.kind = "ts" -> <<l.file, "(", LineStr(l.line), ",1):", " ", "error", " ", "TS2322:", " ">> \o l.msg
      [] l.kind = "tbh" -> <<"  ", "File", " ", "\"", l.file, "\",", " ", "line", " ", LineStr(l.line), ",", " ", "in", " ", "<module>">>
      [] OTHER -> l.msg

\* str.splitlines()
splitlines(ls) == [i \in DOMAIN ls |-> Raw(ls[i])]

\* tokens that hold a colon
HasColon(tok) == tok \in {":", ",1):", "TS2322:", "error:", "ZeroDivisionError:", "ModuleNotFoundError:",
                          "AttributeError:", "NameError:", "TypeError:", "Solution:"}

\* tokens whose first character is not a word character
NonWord == {":", "(", ",1):", "\"", "\",", ",", "<module>", "=", "!"}

\* the line matches \s*\w.*: , which ends a traceback's message block
ColonLine(toks) ==
    LET t == lstrip(toks)
    IN /\ t # <<>>
       /\ Head(t) \notin NonWord
       /\ \E i \in DOMAIN t : HasColon(t[i])

-----------------------------------------------------------------------------
(* Lower-casing and substring tests *)

\* str.lower() of one token
lower_tok(tok) ==
    CASE tok = "ZeroDivisionError:" -> "zerodivisionerror:"
      [] tok = "ModuleNotFoundError:" -> "modulenotfounderror:"
      [] tok = "AttributeError:" -> "attributeerror:"
      [] tok = "NameError:" -> "nameerror:"
      [] tok = "TypeError:" -> "typeerror:"
      [] tok = "AssertionError" -> "assertionerror"
      [] tok = "NoneType" -> "nonetype"
      [] tok = "None" -> "none"
      [] tok = "FAILED" -> "failed"
      [] tok = "Linker" -> "linker"
      [] tok = "Thanks" -> "thanks"
      [] tok = "Hello" -> "hello"
      [] tok = "Fixed" -> "fixed"
      [] tok = "File" -> "file"
      [] OTHER -> tok

\* str.lower()
lower(toks) == [i \in DOMAIN toks |-> lower_tok(toks[i])]

\* the search keys of the program that occur in a lower-case token
Substrings(tok) ==
    CASE tok = "zerodivisionerror:" -> {"zerodivisionerror", "error"}
      [] tok = "division by zero" -> {"division by zero"}
      [] tok = "control reaches end of non-void function" ->
             {"control reaches end of non-void", "control reaches end of non-void function"}
      [] tok = "undefined reference" -> {"undefined reference"}
      [] tok = "ld returned 1 exit status" -> {"ld returned 1 exit"}
      [] tok = "linker" -> {"linker"}
      [] tok = "modulenotfounderror:" -> {"modulenotfounderror", "error"}
      [] tok = "cannot import name" -> {"cannot import name"}
      [] tok = "nonetype" -> {"nonetype", "none"}
      [] tok = "attributeerror:" -> {"attributeerror", "error"}
      [] tok = "none" -> {"none"}
      [] tok = "is not defined" -> {"not defined"}
      [] tok = "nameerror:" -> {"nameerror", "error"}
      [] tok = "type mismatch" -> {"type mismatch"}
      [] tok = "cannot convert" -> {"cannot convert"}
      [] tok = "typeerror:" -> {"typeerror", "error"}
      [] tok = "assertionerror" -> {"assertionerror", "assert", "error"}
      [] tok = "assert" -> {"assert"}
      [] tok = "failed" -> {"failed"}
      [] tok = "error:" -> {"error"}
      [] tok = "error" -> {"error"}
      [] OTHER -> {}

\* key in s, for a lower-case string s
contains(s, key) == \E i \in DOMAIN s : key \in Substrings(s[i])

-----------------------------------------------------------------------------
(* _extract_findings *)

FILE_LINE_PATTERNS == <<"cc", "tb", "ts">>

RECURSIVE SelectLines(_, _)
SelectLines(ls, k) ==
    IF ls = <<>> THEN <<>>
    ELSE (IF Head(ls).kind = k THEN <<Head(ls)>> ELSE <<>>) \o SelectLines(Tail(ls), k)

\* the lines of a traceback's message block: those after the header, up to the
\* first later line that matches \s*\w.*: or to the end of the text
RECURSIVE BlockEnd(_, _)
BlockEnd(ls, j) ==
    IF j > Len(ls) \/ ColonLine(Raw(ls[j])) THEN j ELSE BlockEnd(ls, j + 1)

RECURSIVE JoinLines(_, _, _)
JoinLines(ls, i, j) ==
    IF i >= j THEN <<>>
    ELSE Raw(ls[i]) \o (IF i + 1 < j THEN <<"\n">> ELSE <<>>) \o JoinLines(ls, i + 1, j)

\* finditer of the traceback pattern: a header needs a line after it; the message
\* block runs lazily to the next line with a colon, and the scan resumes there
RECURSIVE TracebackMatches(_, _)
TracebackMatches(ls, i) ==
    IF i >= Len(ls) THEN <<>>
    ELSE IF ls[i].kind = "tbh"
         THEN LET j == BlockEnd(ls, i + 2)
              IN <<Line("tb", ls[i].file, ls[i].line, JoinLines(ls, i + 1, j))>>
                 \o TracebackMatches(ls, j)
         ELSE TracebackMatches(ls, i + 1)

\* pat.finditer(text) of Agent.py: the matches in text order, each with its groupdict
finditer(pat, ls) ==
    IF pat = "tb" THEN TracebackMatches(ls, 1) ELSE SelectLines(ls, pat)

\* pat.finditer(text) of agent.py: the traceback pattern names only the group msg,
\* so groupdict() holds neither file nor line
agent_finditer(pat, ls) ==
    LET unnamed(ms) == [i \in DOMAIN ms |-> [ms[i] EXCEPT !.file = "", !.line = 0]]
    IN IF pat = "tb" THEN unnamed(TracebackMatches(ls, 1)) ELSE SelectLines(ls, pat)

\* (mutant) the inner loop without the test "if file_ and line_"
RECURSIVE scan_matches_unguarded(_, _)
scan_matches_unguarded(ms, findings) ==
    IF ms = <<>> THEN findings
    ELSE LET m == Head(ms)
             found == Append(findings, [file |-> strip_file(m.file), line |-> m.line,
                                        msg |-> collapse_ws(strip(m.msg))])
         IN IF Len(found) >= 5 THEN found ELSE scan_matches_unguarded(Tail(ms), found)

\* the inner for loop: one pattern's matches, appended until 5 findings are held
RECURSIVE scan_matches(_, _)
scan_matches(ms, findings) ==
    IF ms = <<>> THEN findings
    ELSE LET m == Head(ms)
             file_ == strip_file(m.file)
             line_ == m.line
             msg_ == collapse_ws(strip(m.msg))
             found == IF file_ # "" /\ line_ # 0
                      THEN Append(findings, [file |-> file_, line |-> line_, msg |-> msg_])
                      ELSE findings
         IN IF Len(found) >= 5 THEN found ELSE scan_matches(Tail(ms), found)

\* (mutant) the outer loop leaves at the first family that yielded a finding
RECURSIVE scan_patterns_first_family(_, _, _, _)
scan_patterns_first_family(pats, ls, findings, old) ==
    IF pats = <<>> THEN findings
    ELSE LET next(found) ==
                 IF Len(found) >= 1 THEN found
                 ELSE scan_patterns_first_family(Tail(pats), ls, found, old)
         IN next(scan_matches(IF old THEN agent_finditer(Head(pats), ls) ELSE finditer(Head(pats), ls),
                              findings))

\* the outer for loop over FILE_LINE_PATTERNS
RECURSIVE scan_patterns(_, _, _, _)
scan_patterns(pats, ls, findings, old) ==
    IF pats = <<>> THEN findings
    ELSE LET next(found) ==
                 IF Len(found) >= 5 THEN found
                 ELSE scan_patterns(Tail(pats), ls, found, old)
         IN next(scan_matches(IF old THEN agent_finditer(Head(pats), ls) ELSE finditer(Head(pats), ls),
                              findings))

\* lines[-300:]
last_lines(ls) == IF Len(ls) <= 300 THEN ls ELSE SubSeq(ls, Len(ls) - 300 + 1, Len(ls))

\* (mutant) the keyword fallback loop without its limit of 3
RECURSIVE scan_keywords_unbounded(_, _)
scan_keywords_unbounded(ls, findings) ==
    IF ls = <<>> THEN findings
    ELSE LET line == Head(ls)
             low == lower(line)
         IN IF contains(low, "error") \/ contains(low, "assertionerror") \/ contains(low, "failed")
            THEN scan_keywords_unbounded(Tail(ls), Append(findings, [file |-> "(unknown)", line |-> 1, msg |-> strip(line)]))
            ELSE scan_keywords_unbounded(Tail(ls), findings)

\* the keyword fallback loop
RECURSIVE scan_keywords(_, _)
scan_keywords(ls, findings) ==
    IF ls = <<>> THEN findings
    ELSE LET line == Head(ls)
             low == lower(line)
         IN IF contains(low, "error") \/ contains(low, "assertionerror") \/ contains(low, "failed")
            THEN LET found == Append(findings, [file |-> "(unknown)", line |-> 1, msg |-> strip(line)])
                 IN IF Len(found) >= 3 THEN found ELSE scan_keywords(Tail(ls), found)
            ELSE scan_keywords(Tail(ls), findings)

extract_body(ls, old) ==
    LET fallback(findings) ==
            IF findings = <<>>
            THEN scan_keywords(last_lines(splitlines(ls)), <<>>)
            ELSE findings
    IN fallback(scan_patterns(FILE_LINE_PATTERNS, ls, <<>>, old))

\* src/Chaos Reviewer/Agent.py: (log_text or "")
_extract_findings(text) ==
    Ret(extract_body(IF text = None THEN <<>> ELSE text.lines, FALSE))

\* src/agent/agent.py: pat.finditer(None) raises TypeError
agent_extract_findings(text) ==
    IF text = None THEN Raise ELSE Ret(extract_body(text.lines, TRUE))

extract_findings(i, text) ==
    IF i = "Agent" THEN _extract_findings(text) ELSE agent_extract_findings(text)

-----------------------------------------------------------------------------
(* The generation oracle: the primary provider (ASI) and the secondary (local) *)

\* Optional[str]: None, or a string of tokens
S(toks) == [t |-> "s", toks |-> toks]
IsText(v) == IF v.t = "s" THEN v.toks # <<>> ELSE FALSE

\* base URLs of _ASI_BASES under the default configuration, and header shapes
ASI_BASES == 2
ASI_HEADERS == 3

\* What the primary provider does during one _asi_chat_once:
\*   kind "unconfigured": ASI1_API_KEY is empty
\*   kind "allfail":      every request fails (fail: "neterr" raises, "non2xx" answers)
\*   kind "ok":           the first `after` requests fail, the next answers 2xx with
\*                        body "unparseable" (r.json() raises), "falsy" ({}),
\*                        "badshape" (no choices[0].message.content) or "text"
AsiOutcome(k, n, f, b, x) == [kind |-> k, after |-> n, fail |-> f, body |-> b, text |-> x]

\* What the secondary provider does during one _free_llm_chat_once:
\*   kind "unconfigured" (FREE_LLM_BASE or FREE_LLM_MODEL empty), "neterr",
\*   "non200", "unparseable", or "ok" with the response text
FreeOutcome(k, x) == [kind |-> k, text |-> x]

\* one request: (ok, r)
_asi_http(o, i) ==
    IF o.kind = "ok" /\ i > o.after THEN [ok |-> TRUE, r |-> "response"]
    ELSE IF o.fail = "neterr" THEN [ok |-> FALSE, r |-> "None"]
    ELSE [ok |-> FALSE, r |-> "response"]

\* the loops over _ASI_BASES and _ASI_HEADERS, flattened: request i of
\* ASI_BASES * ASI_HEADERS; data is "None" or the parsed body, http counts the requests
RECURSIVE asi_try_loop(_, _)
asi_try_loop(o, i) ==
    IF i > ASI_BASES * ASI_HEADERS THEN [data |-> "None", http |-> i - 1]
    ELSE IF _asi_http(o, i).ok
         THEN [data |-> IF o.body = "unparseable" THEN "None" ELSE o.body, http |-> i]
         ELSE asi_try_loop(o, i + 1)

_asi_try(o) ==
    IF o.kind = "unconfigured" THEN [data |-> "None", http |-> 0] ELSE asi_try_loop(o, 1)

\* returns the stripped content, or None; an exception of the lookup is swallowed
_asi_chat_once(o) ==
    LET content(d) ==
            [exc |-> FALSE,
             val |-> IF d.data = "text" THEN S(strip(o.text)) ELSE None,
             http |-> d.http]
    IN content(_asi_try(o))

\* (mutant) the secondary provider call without its try/except
free_llm_chat_once_unguarded(o) ==
    IF o.kind = "unconfigured" THEN [exc |-> FALSE, val |-> None, http |-> 0]
    ELSE IF o.kind \in {"neterr", "unparseable"} THEN [exc |-> TRUE, val |-> None, http |-> 1]
    ELSE IF o.kind = "non200" THEN [exc |-> FALSE, val |-> None, http |-> 1]
    ELSE [exc |-> FALSE,
          val |-> IF strip(o.text) = <<>> THEN None ELSE S(strip(o.text)),
          http |-> 1]

_free_llm_chat_once(o) ==
    IF o.kind = "unconfigured" THEN [exc |-> FALSE, val |-> None, http |-> 0]
    ELSE IF o.kind \in {"neterr", "non200", "unparseable"} THEN [exc |-> FALSE, val |-> None, http |-> 1]
    ELSE [exc |-> FALSE,
          val |-> IF strip(o.text) = <<>> THEN None ELSE S(strip(o.text)),
          http |-> 1]

\* n copies of an event
Rep(e, n) == [i \in 1..n |-> e]

\* (mutant) the secondary provider is asked first, the primary after it
llm_cascade_secondary_first(asi, free) ==
    LET b == _free_llm_chat_once(free)
        trace1 == <<"_free_llm_chat_once">> \o Rep("free_http", b.http)
    IN IF IsText(b.val) \/ asi.kind = "unconfigured"
       THEN [exc |-> b.exc, val |-> b.val, trace |-> trace1, primary |-> None, secondary |-> b.val]
       ELSE LET a == _asi_chat_once(asi)
            IN [exc |-> FALSE, val |-> a.val,
                trace |-> trace1 \o <<"_asi_chat_once">> \o Rep("asi_http", a.http),
                primary |-> a.val, secondary |-> b.val]

\* The two-provider cascade shared by _llm_one_liner and _llm_solution_text:
\*     reply = None
\*     try:
\*         if ASI1_API_KEY: reply = _asi_chat_once(...)
\*     except Exception: reply = None
\*     if not reply: reply = _free_llm_chat_once(...)
\* trace lists the calls and requests in the order they are made
llm_cascade(asi, free) ==
    LET secondary(reply1, trace1, b) ==
            [exc |-> b.exc, val |-> b.val,
             trace |-> trace1 \o <<"_free_llm_chat_once">> \o Rep("free_http", b.http),
             primary |-> reply1, secondary |-> b.val]
        after_primary(reply1, trace1) ==
            IF IsText(reply1)
            THEN [exc |-> FALSE, val |-> reply1, trace |-> trace1, primary |-> reply1, secondary |-> None]
            ELSE secondary(reply1, trace1, _free_llm_chat_once(free))
        primary(a) ==
            after_primary(IF a.exc THEN None ELSE a.val,
                          IF asi.kind # "unconfigured"
                          THEN <<"_asi_chat_once">> \o Rep("asi_http", a.http)
                          ELSE <<>>)
    IN primary(IF asi.kind # "unconfigured" THEN _asi_chat_once(asi)
               ELSE [exc |-> FALSE, val |-> None, http |-> 0])

NoCall == [exc |-> FALSE, val |-> None, trace |-> <<>>, primary |-> None, secondary |-> None]

_llm_one_liner(findings, asi, free) ==
    LET stripped(c) ==
            IF c.exc THEN c
            ELSE [c EXCEPT !.val = IF IsText(c.val) THEN S(strip(c.val.toks)) ELSE None]
    IN IF findings = <<>> THEN NoCall ELSE stripped(llm_cascade(asi, free))

-----------------------------------------------------------------------------
(* _llm_solution_text *)

\* runs of the filler character, by length
XS == <<"x", "xx", "xxx", "xxxx", "xxxxx", "xxxxxx", "xxxxxxx", "xxxxxxxx", "xxxxxxxxx", "xxxxxxxxxx">>

\* the one-character marker "\u2026"
ELLIPSIS == "<ellipsis>"

\* len() of a token
TokLen(tok) == IF tok = ELLIPSIS THEN 1 ELSE Len(tok)

RECURSIVE CharLen(_)
CharLen(toks) == IF toks = <<>> THEN 0 ELSE TokLen(Head(toks)) + CharLen(Tail(toks))

\* the first k characters of a token cut by the slice (k < Len(tok)): a run of the
\* filler character
CutTok(tok, k) == XS[k]

\* text[:n]
RECURSIVE TakeChars(_, _)
TakeChars(toks, n) ==
    IF toks = <<>> \/ n = 0 THEN <<>>
    ELSE IF TokLen(Head(toks)) <= n
         THEN <<Head(toks)>> \o TakeChars(Tail(toks), n - TokLen(Head(toks)))
         ELSE <<CutTok(Head(toks), n)>>

SOLUTION_MAX == 350

\* _llm_solution_text with a fixed explanation where the providers give none
llm_solution_text_with_fallback(findings, lang, asi, free) ==
    LET shaped(c) ==
            IF c.exc THEN c
            ELSE IF IsText(c.val) THEN [c EXCEPT !.val = S(collapse_ws(strip(c.val.toks)))]
            ELSE [c EXCEPT !.val = S(<<"fix the first error">>)]
    IN IF findings = <<>> THEN NoCall ELSE shaped(llm_cascade(asi, free))

\* _llm_solution_text with the marker appended from 350 characters on
llm_solution_text_marker_at_limit(findings, lang, asi, free) ==
    LET cut(c, text) ==
            [c EXCEPT !.val = S(TakeChars(text, SOLUTION_MAX)
                               \o (IF CharLen(text) >= SOLUTION_MAX THEN <<ELLIPSIS>> ELSE <<>>))]
        shaped(c) ==
            IF c.exc THEN c
            ELSE IF IsText(c.val) THEN cut(c, collapse_ws(strip(c.val.toks)))
            ELSE [c EXCEPT !.val = None]
    IN IF findings = <<>> THEN NoCall ELSE shaped(llm_cascade(asi, free))

_llm_solution_text(findings, lang, asi, free) ==
    LET cut(c, text) ==
            [c EXCEPT !.val = S(TakeChars(text, SOLUTION_MAX)
                               \o (IF CharLen(text) > SOLUTION_MAX THEN <<ELLIPSIS>> ELSE <<>>))]
        shaped(c) ==
            IF c.exc THEN c
            ELSE IF IsText(c.val) THEN cut(c, collapse_ws(strip(c.val.toks)))
            ELSE [c EXCEPT !.val = None]
    IN IF findings = <<>> THEN NoCall ELSE shaped(llm_cascade(asi, free))

-----------------------------------------------------------------------------
(* _concise_fix_or_summary *)

\* f"{file}:{line}" if file and line else ""
Loc(f0) == IF f0.file # "" /\ f0.line # 0 THEN <<f0.file, ":", LineStr(f0.line)>> ELSE <<>>

\* str.startswith
StartsWith(s, prefix) == Len(prefix) <= Len(s) /\ SubSeq(s, 1, Len(prefix)) = prefix

\* " \u2014 ": the em dash is written "--"
Dash == <<" ", "--", " ">>

\* (mutant) the table with the assertion rule tested before the others
HeuristicFix_assert_first(msg) ==
    IF contains(msg, "assert") \/ contains(msg, "failed")
    THEN <<"assertion said cap --", "fix the logic or update precondition.">>
    ELSE IF contains(msg, "zerodivisionerror") \/ contains(msg, "division by zero")
    THEN <<"math said nah --", "add a divisor==0 guard before the divide.">>
    ELSE <<"first error is the boss --", "fix the top one; others will fall in line.">>

\* the heuristic table of Agent.py: (roast, tip) for a lower-case message
HeuristicFix(msg) ==
    IF contains(msg, "zerodivisionerror") \/ contains(msg, "division by zero")
    THEN <<"math said nah --", "add a divisor==0 guard before the divide.">>
    ELSE IF contains(msg, "control reaches end of non-void")
    THEN <<"function ghosted the return --", "ensure every path returns a value.">>
    ELSE IF contains(msg, "undefined reference") \/ contains(msg, "ld returned 1 exit") \/ contains(msg, "linker")
    THEN <<"linker cooked --", "link missing obj/lib or implement the symbol.">>
    ELSE IF contains(msg, "modulenotfounderror")
    THEN <<"not installed, bestie --", "pip install it / add to requirements.txt.">>
    ELSE IF contains(msg, "cannot import name")
    THEN <<"import beef --", "use the moved symbol or pin compatible versions.">>
    ELSE IF contains(msg, "nonetype") \/ (contains(msg, "attributeerror") /\ contains(msg, "none"))
    THEN <<"null vibes --", "guard for None or ensure the factory returns an instance.">>
    ELSE IF contains(msg, "not defined") \/ contains(msg, "nameerror")
    THEN <<"forgot the symbol --", "define/import it before use.">>
    ELSE IF contains(msg, "type mismatch") \/ contains(msg, "cannot convert") \/ contains(msg, "typeerror")
    THEN <<"types beefing --", "cast/adjust signature or fix callsite type.">>
    ELSE IF contains(msg, "assert") \/ contains(msg, "failed")
    THEN <<"assertion said cap --", "fix the logic or update precondition.">>
    ELSE <<"first error is the boss --", "fix the top one; others will fall in line.">>

\* returns the line, and whether the heuristic table supplied it
_concise_fix_or_summary(findings, lang, asi, free) ==
    LET prefixed(loc, fix) ==
            IF loc # <<>> /\ ~StartsWith(lower(fix), lower(loc)) THEN loc \o Dash \o fix ELSE fix
        located(loc, rt) ==
            IF loc # <<>> THEN loc \o Dash \o <<rt[1], " ", rt[2]>> ELSE <<rt[1], " ", rt[2]>>
        composed(c) ==
            IF c.exc THEN [exc |-> TRUE, val |-> <<>>, table |-> FALSE, llm |-> c]
            ELSE IF IsText(c.val)
            THEN [exc |-> FALSE, val |-> prefixed(Loc(findings[1]), c.val.toks),
                  table |-> FALSE, llm |-> c]
            ELSE IF findings = <<>>
            THEN [exc |-> FALSE,
                  val |-> <<"first error is the boss --", " ", "fix the top one; others will fall in line.">>,
                  table |-> TRUE, llm |-> c]
            ELSE [exc |-> FALSE,
                  val |-> located(Loc(findings[1]), HeuristicFix(lower(findings[1].msg))),
                  table |-> TRUE, llm |-> c]
    IN composed(_llm_one_liner(findings, asi, free))

\* agent.py: the primary provider alone, and only when the start-up ping succeeded
_micro_fix_suggestion(findings, llm_ok, asi) ==
    LET reply(a) ==
            [exc |-> FALSE,
             val |-> IF a.exc THEN None ELSE IF IsText(a.val) THEN a.val ELSE None,
             trace |-> <<"_asi_chat_once">> \o Rep("asi_http", a.http),
             primary |-> a.val, secondary |-> None]
    IN IF ~llm_ok \/ findings = <<>> THEN NoCall ELSE reply(_asi_chat_once(asi))

\* the heuristic table of agent.py: the tip for a lower-case message
agent_HeuristicTip(msg) ==
    IF contains(msg, "control reaches end of non-void function")
    THEN "add a return on all paths (e.g., return <value>;)"
    ELSE IF contains(msg, "undefined reference") \/ contains(msg, "linker")
    THEN "link missing object/library or provide the definition"
    ELSE IF contains(msg, "not defined") \/ contains(msg, "nameerror")
    THEN "define/import the symbol before use"
    ELSE IF contains(msg, "type mismatch") \/ contains(msg, "cannot convert")
    THEN "adjust the type/cast or the function signature"
    ELSE IF contains(msg, "assert") \/ contains(msg, "failed")
    THEN "update precondition or fix logic to satisfy the assertion"
    ELSE "fix the first reported error; later ones cascade"

agent_concise_fix_or_summary(findings, lang, llm_ok, asi) ==
    LET located(loc, line) == IF loc # <<>> THEN loc \o Dash \o line ELSE line
        table(f0, c) ==
            [exc |-> FALSE,
             val |-> strip(collapse_ws(located(Loc(f0), <<agent_HeuristicTip(lower(f0.msg))>>))),
             table |-> TRUE, llm |-> c]
        composed(c) ==
            IF IsText(c.val)
            THEN [exc |-> FALSE, val |-> located(Loc(findings[1]), c.val.toks), table |-> FALSE, llm |-> c]
            ELSE table(IF findings # <<>> THEN findings[1] ELSE [file |-> "", line |-> 0, msg |-> <<>>], c)
    IN composed(_micro_fix_suggestion(findings, llm_ok, asi))

-----------------------------------------------------------------------------
(* The extractor on its own: texts are built line by line, then extracted *)

\* texts of any lines are built up to MaxShort lines; texts of CoreLines up to MaxLines
MaxShort == 3
MaxLines == 6

CcReturn == Line("cc", "main.c", 1, <<"control reaches end of non-void function">>)
CcNoFile == Line("cc", " ", 2, <<"linker", "  ", "failed">>)
CcLineZero == Line("cc", "main.c", 0, <<"undefined reference">>)
TbHeader == Line("tbh", "app.py", 2, <<>>)
TsAssign == Line("ts", "x.ts", 1, <<"type mismatch", "\t", "here", " ">>)
TxtFailed == Line("txt", "", 0, <<"  ", "build", "\t", "FAILED">>)
TxtCode == Line("txt", "", 0, <<"  ", "x", " ", "=", " ", "1/0">>)
TxtZeroDiv == Line("txt", "", 0, <<"ZeroDivisionError:", " ", "division by zero">>)

CoreLines == {CcReturn, TsAssign, TxtFailed}
ExtLines == CoreLines \cup {CcNoFile, CcLineZero, TbHeader, TxtCode, TxtZeroDiv}

ExtInit ==
    /\ impl \in Impls
    /\ ExtIdle
    /\ FixIdle
    /\ SysOff

ExtAppend(l) ==
    /\ ~ext_result.run
    /\ log_text # None
    /\ \/ Len(log_text.lines) < MaxShort
       \/ /\ Len(log_text.lines) < MaxLines
          /\ l \in CoreLines
          /\ \A i \in DOMAIN log_text.lines : log_text.lines[i] \in CoreLines
    /\ log_text' = Str(Append(log_text.lines, l))
    /\ UNCHANGED <<impl, ext_result, notExt>>

ExtNone ==
    /\ ~ext_result.run
    /\ log_text = Str(<<>>)
    /\ log_text' = None
    /\ UNCHANGED <<impl, ext_result, notExt>>

ExtCall ==
    /\ ~ext_result.run
    /\ ext_result' = extract_findings(impl, log_text)
    /\ UNCHANGED <<impl, log_text, notExt>>

ExtNext ==
    \/ \E l \in ExtLines : ExtAppend(l)
    \/ ExtNone
    \/ ExtCall

SpecExtract == ExtInit /\ [][ExtNext]_vars

ExtDone == ext_result.run

-----------------------------------------------------------------------------
(* The composers on their own: one call per step, for a top finding and the *)
(* outcomes of the two providers during that call                           *)

\* messages of the top finding hold up to MaxMsgToks tokens
MaxMsgToks == 2

FixVocab ==
    {"ZeroDivisionError:", "division by zero", "control reaches end of non-void function",
     "undefined reference", "ld returned 1 exit status", "Linker", "ModuleNotFoundError:",
     "cannot import name", "NoneType", "AttributeError:", "None", "is not defined",
     "NameError:", "type mismatch", "cannot convert", "TypeError:", "AssertionError",
     "assert", "FAILED", "error:", "hello"}

FixMsgs == UNION {[1..n -> FixVocab] : n \in 0..MaxMsgToks}

CoreMsgs == {<<"ModuleNotFoundError:", "hello">>, <<"FAILED">>, <<>>}

FixLocs == {<<"main.c", 1>>, <<"(unknown)", 1>>}

Finding(loc, m) == [file |-> loc[1], line |-> loc[2], msg |-> m]

ReplyPlain == <<" ", "add", "  ", "return", "\n">>
ReplyLoc == <<"Main.c", ":", "1", " ", "add return">>
ReplyBlank == <<" ", "\t">>
\* n words of ten characters with one blank between them: 11 * n - 1 characters
Filler(n) == [i \in 1..(2 * n - 1) |-> IF i % 2 = 1 THEN XS[10] ELSE " "]

\* replies around the limit of the explanation: of 350, 351 and 352 characters
\* (the last with character 350 at the end of a word), and one of 354 characters
\* that has 350 once its whitespace is collapsed
Reply350 == Filler(31) \o <<" ", XS[9]>>
Reply351 == Filler(32)
Reply352 == Filler(31) \o <<" ", XS[9], " ", "x">>
ReplyWide == Filler(31) \o <<"  ", "\n", " ", "\t", XS[9]>>
LongReplies == {Reply350, Reply351, Reply352, ReplyWide}

ReplyTexts == {ReplyPlain, ReplyLoc, ReplyBlank} \cup LongReplies

AsiUnconfigured == AsiOutcome("unconfigured", 0, "neterr", "text", <<>>)

AsiOutcomes ==
    {AsiUnconfigured}
    \cup {AsiOutcome("allfail", 0, f, "text", <<>>) : f \in {"neterr", "non2xx"}}
    \cup {AsiOutcome("ok", 0, "neterr", b, <<>>) : b \in {"unparseable", "falsy", "badshape"}}
    \cup {AsiOutcome("ok", 1, f, b, <<>>) : f \in {"neterr", "non2xx"}, b \in {"unparseable", "falsy", "badshape"}}
    \cup {AsiOutcome("ok", 0, "neterr", "text", x) : x \in ReplyTexts}
    \cup {AsiOutcome("ok", 1, f, "text", x) : f \in {"neterr", "non2xx"}, x \in ReplyTexts}

FreeUnconfigured == FreeOutcome("unconfigured", <<>>)

FreeOutcomes ==
    {FreeOutcome(k, <<>>) : k \in {"unconfigured", "neterr", "non200", "unparseable"}}
    \cup {FreeOutcome("ok", x) : x \in ReplyTexts}

\* outcome pairs with which both providers yield no usable text
QuietPairs ==
    {<<AsiUnconfigured, FreeUnconfigured>>,
     <<AsiOutcome("allfail", 0, "neterr", "text", <<>>), FreeOutcome("non200", <<>>)>>,
     <<AsiOutcome("ok", 1, "non2xx", "text", ReplyBlank), FreeOutcome("ok", ReplyBlank)>>}

\* the message varies freely while the providers are quiet; the providers vary
\* freely for the messages of CoreMsgs
FixInputs ==
    {<<m, o[1], o[2]>> : m \in FixMsgs, o \in QuietPairs}
    \cup {<<m, a, f>> : m \in CoreMsgs, a \in AsiOutcomes, f \in FreeOutcomes}

FixInit ==
    /\ impl \in Impls
    /\ ExtIdle
    /\ FixIdle
    /\ SysOff

\* _concise_fix_or_summary(findings, lang) of Agent.py
FixCall(loc, in) ==
    /\ impl = "Agent"
    /\ FixIdle
    /\ fx_in' = [op |-> "fix", findings |-> <<Finding(loc, in[1])>>, asi |-> in[2], free |-> in[3],
                 llm_ok |-> FALSE]
    /\ fx_out' = _concise_fix_or_summary(<<Finding(loc, in[1])>>, None, in[2], in[3])
    /\ UNCHANGED <<impl, notFix>>

\* _concise_fix_or_summary(findings, lang) of agent.py
AgentFixCall(loc, in, llm_ok) ==
    /\ impl = "agent"
    /\ FixIdle
    /\ in[3] = FreeUnconfigured
    /\ llm_ok => in[2].kind # "unconfigured"
    /\ fx_in' = [op |-> "fix", findings |-> <<Finding(loc, in[1])>>, asi |-> in[2], free |-> in[3],
                 llm_ok |-> llm_ok]
    /\ fx_out' = agent_concise_fix_or_summary(<<Finding(loc, in[1])>>, None, llm_ok, in[2])
    /\ UNCHANGED <<impl, notFix>>

\* _llm_solution_text(findings, lang) of Agent.py
SolutionCall(loc, in) ==
    /\ impl = "Agent"
    /\ FixIdle
    /\ in[1] \in CoreMsgs
    /\ fx_in' = [op |-> "solution", findings |-> <<Finding(loc, in[1])>>, asi |-> in[2], free |-> in[3],
                 llm_ok |-> FALSE]
    /\ fx_out' = _llm_solution_text(<<Finding(loc, in[1])>>, None, in[2], in[3])
    /\ UNCHANGED <<impl, notFix>>

ComposeFix == FixIdle /\ impl = "Agent" /\ \E loc \in FixLocs, in \in FixInputs : FixCall(loc, in)

AgentComposeFix ==
    FixIdle /\ impl = "agent" /\ \E loc \in FixLocs, in \in FixInputs, ok \in BOOLEAN : AgentFixCall(loc, in, ok)

ComposeSolution == FixIdle /\ impl = "Agent" /\ \E loc \in FixLocs, in \in FixInputs : SolutionCall(loc, in)

FixNext ==
    \/ ComposeFix
    \/ AgentComposeFix
    \/ ComposeSolution

SpecFix == FixInit /\ [][FixNext]_vars

-----------------------------------------------------------------------------
(* JSON values, inbound texts and the intent patterns *)

\* a value of a JSON object's key: the key is absent, or holds null, a number, a
\* string (its lines) or an object (of which only the key "lang" is looked at)
JAbsent == [t |-> "absent"]
JNull == [t |-> "null"]
JNum(n) == [t |-> "num", n |-> n]
JStr(ls) == [t |-> "str", lines |-> ls]
JObj(v) == [t |-> "obj", lang |-> v]

\* bool(data.get(key))
Truthy(v) ==
    CASE v.t = "num" -> v.n # 0
      [] v.t = "str" -> v.lines # <<>>
      [] v.t = "obj" -> v.lang.t # "absent"
      [] OTHER -> FALSE

Txt(m) == Line("txt", "", 0, m)

\* the line holds only whitespace
BlankLine(l) == \A i \in DOMAIN Raw(l) : Raw(l)[i] \in WS

RECURSIVE DropBlankHead(_)
DropBlankHead(ls) == IF ls # <<>> /\ BlankLine(Head(ls)) THEN DropBlankHead(Tail(ls)) ELSE ls

RECURSIVE DropBlankTail(_)
DropBlankTail(ls) ==
    IF ls # <<>> /\ BlankLine(ls[Len(ls)]) THEN DropBlankTail(SubSeq(ls, 1, Len(ls) - 1)) ELSE ls

\* a diagnostic whose blank file name is stripped away is no diagnostic any more
lstrip_line(l) ==
    IF l.kind = "txt" THEN [l EXCEPT !.msg = lstrip(l.msg)]
    ELSE IF l.kind \in {"cc", "ts"} /\ l.file \in WS THEN Txt(lstrip(Raw(l)))
    ELSE l

rstrip_line(l) == IF l.kind = "tbh" THEN l ELSE [l EXCEPT !.msg = rstrip(l.msg)]

\* str.strip() of a text of several lines
strip_text(ls) ==
    LET ends(a) == [a EXCEPT ![1] = lstrip_line(@), ![Len(a)] = rstrip_line(@)]
        inner(a) == IF a = <<>> THEN <<>> ELSE ends(a)
    IN inner(DropBlankTail(DropBlankHead(ls)))

\* An inbound text is plain text, or the text of a JSON object with the keys
\* context, log_tail and text (the bridge's request document also has ts)
Plain(ls) == [form |-> "plain", lines |-> ls]
Envelope(c, l, x) == [form |-> "json", context |-> c, log_tail |-> l, text |-> x]
ReqDoc(ts, c, l, x) == [form |-> "json", ts |-> ts, context |-> c, log_tail |-> l, text |-> x]
Garbage == [form |-> "garbage"]

\* the characters of one key of the JSON text; a line break inside a string is
\* written as the escape \n
json_key(key, v) ==
    CASE v.t = "absent" -> <<>>
      [] v.t = "null" -> <<key, "null">>
      [] v.t = "num" -> <<key, "5">>
      [] v.t = "str" -> <<key, "\"">> \o JoinLines(v.lines, 1, Len(v.lines) + 1) \o <<"\"">>
      [] OTHER -> <<key, "{}">>

json_dumps(d) ==
    <<"{">>
    \o (IF d.context.t = "obj"
        THEN <<"\"context\":", "{">> \o json_key("\"lang\":", d.context.lang) \o <<"}">>
        ELSE json_key("\"context\":", d.context))
    \o json_key("\"log_tail\":", d.log_tail)
    \o json_key("\"text\":", d.text)
    \o <<"}">>

\* the lines of a text as the regular expressions see them
RawLines(text) == IF text.form = "plain" THEN text.lines ELSE <<Txt(json_dumps(text))>>

\* _collect_text(msg).strip()
_collect_text(msg) ==
    IF msg.text.form = "plain" THEN Plain(strip_text(msg.text.lines)) ELSE msg.text

IsEmpty(text) == text.form = "plain" /\ text.lines = <<>>

\* words of _GREET_PAT and _PRAISE_PAT (lower case, re.I)
GREET_WORDS == {"hi", "hello", "hey", "yo", "sup", "hola", "namaste", "what's up", "gm", "good morning"}
PRAISE_WORDS == {"thanks", "thank you", "ty", "appreciate", "you are great", "you're goated"}

\* pat.search(text) for a pattern \b(w1|w2|...)\b: some token is one of the words
\* and a word boundary precedes it.  In JSON text the token after a tab or a line
\* break of a string follows the letter of the escape, so no boundary precedes it.
WordAt(toks, i, words, escaped) ==
    /\ lower_tok(toks[i]) \in words
    /\ (i = 1 \/ ~escaped \/ toks[i - 1] \notin {"\t", "\n"})

search(words, text) ==
    LET ls == RawLines(text)
    IN \E n \in DOMAIN ls :
          LET toks == Raw(ls[n])
          IN \E i \in DOMAIN toks : WordAt(toks, i, words, text.form = "json")

\* _SUCCESS_PAT: ^\s*(return\s+[01]\s*;?\s*$|gg\s*king$|build\s+passed$|ok\s*$|fixed\s*$|works\s*!*)
\* is anchored at the start of the text; all alternatives but the last also at its end
SUCCESS_WHOLE == {"return 0;", "return 1", "gg king", "build passed", "ok", "fixed"}
SUCCESS_PREFIX == {"works", "works!", "workshop"}

_looks_like_success(text) ==
    /\ text.form = "plain"
    /\ text.lines # <<>>
    /\ LET t == lstrip(Raw(text.lines[1]))
       IN /\ t # <<>>
          /\ \/ lower_tok(t[1]) \in SUCCESS_PREFIX
             \/ /\ Len(text.lines) = 1
                /\ Len(rstrip(t)) = 1
                /\ lower_tok(t[1]) \in SUCCESS_WHOLE

-----------------------------------------------------------------------------
(* Language hint and remarks *)

\* str.endswith(suffixes) of a lower-case file name
FileLang(f) ==
    CASE f \in {"main.c", "main.cpp", "util.h"} -> S(<<"cpp">>)
      [] f \in {"app.py"} -> S(<<"python">>)
      [] f \in {"x.ts", "x.js"} -> S(<<"typescript">>)
      [] OTHER -> None

RECURSIVE _guess_lang_from_findings(_)
_guess_lang_from_findings(findings) ==
    IF findings = <<>> THEN None
    ELSE IF FileLang(lower_tok(Head(findings).file)) # None
         THEN FileLang(lower_tok(Head(findings).file))
         ELSE _guess_lang_from_findings(Tail(findings))

ITALIAN ==
    <<"Ballerina Cappuccina pirouetted away with your semicolons.",
      "Bombombini Gusini says add that return, fr.",
      "Tralalero Tralala stomping the bug with Nike on.",
      "Chimpanzini Bananini approved the patch diff.">>

DEFAULT_QUIPS ==
    <<"Cooked build. Not the mosquito again.",
      "Goofy ahh pipeline crashed out -- apply the fix and mew on.",
      "Put the fries in the bag... and the return in the function.",
      "Goated with the sauce once tests pass, blud.",
      "Skibidi", "Sigma", "Chad", "Gigachad", "Fine Shyt - work hard">>

\* QUIPS_BRAINROT of Agent.py
QUIPS_BRAINROT(key) ==
    CASE key = "cpp" ->
            <<"Ohio code moment: missing return cooked the build.",
              "6-7... and the function dipped before returning. Skibidi no return.",
              "Control path NPC'd out. Add a return, blud.",
              "Cooked path. Low taper fade your logic and return something, fr.">>
      [] key = "python" ->
            <<"Traceback doing doom scrolling. Add the check, keep it sigma.",
              "Cringe None bug. Did you pray today? Add a guard.",
              "Sussy exception arc -- tighten that branch, biggest bird style.">>
      [] key = "typescript" ->
            <<"Types won't glaze themselves -- narrow it, gigachad dev.",
              "TS said 'string', you gave 'number'. Ohio assign, fr.",
              "Rizz up the types: refine that union, shmlawg.">>
      [] key = "italian" -> ITALIAN
      [] key = "basic" -> <<"Negative Aura">>
      [] OTHER -> DEFAULT_QUIPS

\* QUIPS_BRAINROT of agent.py: two strings of the python pool lack the comma
\* between them and are one string
agent_QUIPS_BRAINROT(key) ==
    CASE key = "cpp" ->
            <<"Ohio code moment: missing return cooked the build.",
              "Ballerina Cappuccina pirouetted away with your semicolons.",
              "6-7... and the function dipped before returning. Skibidi no return.",
              "Control path NPC'd out. Add a return, blud.",
              "Cooked path. Low taper fade your logic and return something, fr.">>
      [] key = "python" ->
            <<"Traceback doing doom scrolling. Add the check, keep it sigma.",
              "Bombombini Gusini says add that return, fr.",
              "Tralalero Tralala stomping the bug with Nike on.Cringe None bug. Did you pray today? Add a guard.",
              "Sussy exception arc -- tighten that branch, biggest bird style.">>
      [] key = "typescript" ->
            <<"Types won't glaze themselves -- narrow it, gigachad dev.",
              "TS said 'string', you gave 'number'. Ohio assign, fr.",
              "Rizz up the types: refine that union, shmlawg.">> \o ITALIAN
      [] key = "italian" -> ITALIAN
      [] key = "basic" -> <<"Negative Aura">>
      [] OTHER -> DEFAULT_QUIPS

\* A language hint is None, a string S(<<word>>) or a number JNum(n).
\* (lang or "").lower(): a number has no lower()
lang_key(lang) ==
    IF lang = None THEN Ret("")
    ELSE IF lang.t = "num" THEN Raise
    ELSE Ret(IF Len(lang.toks) = 1 THEN lower_tok(lang.toks[1]) ELSE "")

\* the selection with the italian table blended into the basic table as well
quip_picks_basic_blended(i, lang, basic, mix) ==
    LET pool(key) == IF i = "Agent" THEN QUIPS_BRAINROT(key) ELSE agent_QUIPS_BRAINROT(key)
        mixed(key) == IF key.exc THEN Raise ELSE Ret(pool(key.val) \o (IF mix THEN ITALIAN ELSE <<>>))
    IN IF basic THEN Ret(pool("basic") \o (IF mix THEN ITALIAN ELSE <<>>)) ELSE mixed(lang_key(lang))

\* the list handed to the last random.choice: mix is the outcome of
\* random.random() < 0.25
quip_picks(i, lang, basic, mix) ==
    LET pool(key) == IF i = "Agent" THEN QUIPS_BRAINROT(key) ELSE agent_QUIPS_BRAINROT(key)
        mixed(key) == IF key.exc THEN Raise ELSE Ret(pool(key.val) \o (IF mix THEN ITALIAN ELSE <<>>))
    IN IF basic THEN Ret(pool("basic")) ELSE mixed(lang_key(lang))

\* rnd.k is the index random.choice draws
_brainrot_quip_raw(i, lang, basic, rnd) ==
    LET choice(picks) == IF picks.exc THEN Raise ELSE Ret(picks.val[rnd.k])
    IN choice(quip_picks(i, lang, basic, rnd.mix))

Rnd0 == [mix |-> FALSE, k |-> 1]

MaxPicks == Len(DEFAULT_QUIPS) + Len(ITALIAN)

\* the outcomes the random draws of one call can have
QuipDraws(i, lang, basic) ==
    LET fits(r, picks) ==
            /\ basic => ~r.mix
            /\ IF picks.exc THEN r = Rnd0 ELSE r.k <= Len(picks.val)
    IN {r \in [mix : BOOLEAN, k : 1..MaxPicks] : fits(r, quip_picks(i, lang, basic, r.mix))}


-----------------------------------------------------------------------------
(* The chat handlers *)

ChatMsg(content) == [type |-> "chat", content |-> content]
AckMsg == [type |-> "ack", content |-> <<>>]

WELCOME == <<"Hey! I'm **Chaos Reviewer** -- paste an error or ask for a quick code note.">>

\* Agent.py: bubble 1 holds line1 and the non-empty extra lines; bubble 2 is sent
\* only for a non-empty line2
_send_two_bubbles(line1, line2, extra) ==
    <<ChatMsg(<<line1>> \o SelectSeq(extra, LAMBDA t : t # <<>>))>>
    \o (IF line2 # <<>> THEN <<ChatMsg(<<line2>>)>> ELSE <<>>)

\* agent.py
send_two_lines(line1, line2) == <<ChatMsg(<<line1>>), ChatMsg(<<line2>>)>>

NoFix == [exc |-> FALSE, val |-> <<>>, table |-> FALSE, llm |-> NoCall]

\* what a handler run did besides sending: the findings it extracted, the
\* arguments of its remark call, the composer results, the number of
\* _extract_findings calls, and whether the composers were called
Info0 ==
    [findings |-> <<>>, qcalled |-> FALSE, qlang |-> None, qbasic |-> FALSE,
     fix |-> NoFix, sol |-> NoCall, extractions |-> 0, composed |-> FALSE]

Ignored == [status |-> "ignored", branch |-> "none", sent |-> <<>>, info |-> Info0]

Crashed(branch, info) == [status |-> "crash", branch |-> branch, sent |-> <<>>, info |-> info]

\* a fixed first line and a remark of the generic table
\* canned_reply with the remark selected for the c/c++ language
canned_reply_cpp_remark(i, line1, rnd, branch, n) ==
    LET bubbles(line2) ==
            IF i = "Agent" THEN _send_two_bubbles(line1, <<line2>>, <<>>)
            ELSE send_two_lines(line1, <<line2>>)
    IN [status |-> "done", branch |-> branch,
        sent |-> bubbles(_brainrot_quip_raw(i, S(<<"cpp">>), FALSE, rnd).val) \o <<AckMsg>>,
        info |-> [Info0 EXCEPT !.qcalled = TRUE, !.qlang = S(<<"cpp">>), !.extractions = n]]

canned_reply(i, line1, rnd, branch, n) ==
    LET bubbles(line2) ==
            IF i = "Agent" THEN _send_two_bubbles(line1, <<line2>>, <<>>)
            ELSE send_two_lines(line1, <<line2>>)
    IN [status |-> "done", branch |-> branch,
        sent |-> bubbles(_brainrot_quip_raw(i, None, FALSE, rnd).val) \o <<AckMsg>>,
        info |-> [Info0 EXCEPT !.qcalled = TRUE, !.extractions = n]]

\* the outcomes of the providers during one handler run: for the fix composer
\* and for the explanation composer
Quiet ==
    [fix_asi |-> AsiUnconfigured, fix_free |-> FreeUnconfigured,
     sol_asi |-> AsiUnconfigured, sol_free |-> FreeUnconfigured]

\* Agent.py lines 407-412 and 427-432: fix, remark, explanation, two bubbles
findings_reply(findings, lang, o, rnd, branch) ==
    LET extra(sol) == IF IsText(sol.val) THEN << <<"Solution:", " ">> \o sol.val.toks >> ELSE <<>>
        reply(fix, line2, sol, info) ==
            IF fix.exc \/ line2.exc \/ sol.exc THEN Crashed(branch, info)
            ELSE [status |-> "done", branch |-> branch,
                  sent |-> _send_two_bubbles(fix.val, <<line2.val>>, extra(sol)) \o <<AckMsg>>,
                  info |-> info]
        explained(fix, basic, line2, sol) ==
            reply(fix, line2, sol,
                  [findings |-> findings, qcalled |-> ~fix.exc, qlang |-> lang, qbasic |-> basic,
                   fix |-> fix, sol |-> sol, extractions |-> 1, composed |-> TRUE])
        remarked(fix, basic, line2) ==
            explained(fix, basic, line2,
                      IF fix.exc \/ line2.exc THEN NoCall
                      ELSE _llm_solution_text(findings, lang, o.sol_asi, o.sol_free))
        fixed(fix, basic) == remarked(fix, basic, _brainrot_quip_raw("Agent", lang, basic, rnd))
    IN fixed(_concise_fix_or_summary(findings, lang, o.fix_asi, o.fix_free),
             findings[1].file = "(unknown)")

\* agent.py lines 323-327 and 341-345
agent_findings_reply(findings, lang, llm_ok, o, rnd, branch) ==
    LET reply(fix, basic, line2, info) ==
            IF line2.exc THEN Crashed(branch, info)
            ELSE [status |-> "done", branch |-> branch,
                  sent |-> send_two_lines(fix.val, <<line2.val>>) \o <<AckMsg>>,
                  info |-> info]
        fixed(fix, basic) ==
            reply(fix, basic, _brainrot_quip_raw("agent", lang, basic, rnd),
                  [findings |-> findings, qcalled |-> TRUE, qlang |-> lang, qbasic |-> basic,
                   fix |-> fix, sol |-> NoCall, extractions |-> 1, composed |-> TRUE])
    IN fixed(agent_concise_fix_or_summary(findings, lang, llm_ok, o.fix_asi),
             findings[1].file = "(unknown)")

\* ((data.get("context") or {}).get("lang")) or None: a string or a number has no get()
envelope_lang(d) ==
    IF ~Truthy(d.context) THEN Ret(None)
    ELSE IF d.context.t # "obj" THEN Raise
    ELSE IF ~Truthy(d.context.lang) THEN Ret(None)
    ELSE IF d.context.lang.t = "str" THEN Ret(S(Raw(d.context.lang.lines[1])))
    ELSE Ret(d.context.lang)

\* (data.get(key) or "").strip(): a number or an object has no strip()
or_strip(v) ==
    IF ~Truthy(v) THEN Ret(<<>>)
    ELSE IF v.t # "str" THEN Raise
    ELSE Ret(strip_text(v.lines))

\* the envelope's language hint alone, without the guess from the findings
lang_without_guess(lang, findings) == lang

\* lang or _guess_lang_from_findings(findings)
lang_or_guess(lang, findings) == IF lang # None THEN lang ELSE _guess_lang_from_findings(findings)

\* on_chat_or_review of Agent.py
on_chat_or_review(msg, o, rnd) ==
    LET \* lines 424-448: plain text triage
        triaged(text, findings) ==
            IF findings # <<>>
            THEN findings_reply(findings, _guess_lang_from_findings(findings), o, rnd, "findings")
            ELSE IF search(GREET_WORDS, text)
            THEN canned_reply("Agent", <<"shut up and provide the error">>, rnd, "greeting", 1)
            ELSE canned_reply("Agent", <<"shut  up and provide the error">>, rnd, "default", 1)
        triage(text) == triaged(text, _extract_findings(Str(RawLines(text))).val)
        \* lines 403-418: the envelope's log_tail
        extracted(lang, findings) ==
            IF findings # <<>>
            THEN findings_reply(findings, lang_or_guess(lang, findings), o, rnd, "envelope")
            ELSE canned_reply("Agent", <<"shut up and provide the error">>, rnd, "envelope", 1)
        \* lines 398-421
        envelope(text, lang, raw_payload, free_text) ==
            IF lang.exc \/ raw_payload.exc \/ free_text.exc THEN Crashed("envelope", Info0)
            ELSE IF raw_payload.val # <<>>
            THEN extracted(lang.val, _extract_findings(Str(raw_payload.val)).val)
            ELSE triage(IF free_text.val # <<>> THEN Plain(free_text.val) ELSE text)
        handled(text) ==
            IF IsEmpty(text) THEN Ignored
            ELSE IF _looks_like_success(text)
            THEN canned_reply("Agent", <<"GG KING">>, rnd, "success", 0)
            ELSE IF search(PRAISE_WORDS, text)
            THEN canned_reply("Agent", <<"u be glazing me brahh">>, rnd, "praise", 0)
            ELSE IF text.form = "json" /\ (text.log_tail.t # "absent" \/ text.text.t # "absent")
            THEN envelope(text, envelope_lang(text), or_strip(text.log_tail), or_strip(text.text))
            ELSE triage(text)
    IN handled(_collect_text(msg))

\* data.get("log_tail") or "" handed to _extract_findings of agent.py, which
\* raises for a value that is no string
agent_extract_log_tail(v) ==
    IF ~Truthy(v) THEN agent_extract_findings(Str(<<>>))
    ELSE IF v.t # "str" THEN Raise
    ELSE agent_extract_findings(Str(v.lines))

\* on_chat_or_review of agent.py, after the welcome
agent_chat_body(msg, llm_ok, o, rnd) ==
    LET rude == <<"shut your b*tch *ss up and provide the error">>
        triaged(findings) ==
            IF findings # <<>>
            THEN agent_findings_reply(findings, _guess_lang_from_findings(findings), llm_ok, o, rnd, "findings")
            ELSE canned_reply("agent", rude, rnd, "default", 1)
        envelope(lang, ext) ==
            IF lang.exc \/ ext.exc THEN Crashed("envelope", Info0)
            ELSE IF ext.val # <<>>
            THEN agent_findings_reply(ext.val, lang_or_guess(lang.val, ext.val), llm_ok, o, rnd, "envelope")
            ELSE canned_reply("agent", rude, rnd, "envelope", 1)
        handled(text) ==
            IF IsEmpty(text) THEN Ignored
            ELSE IF search(PRAISE_WORDS, text)
            THEN canned_reply("agent", <<"u be glazing me brahh">>, rnd, "praise", 0)
            ELSE IF text.form = "json" /\ text.log_tail.t # "absent"
            THEN envelope(envelope_lang(text), agent_extract_log_tail(text.log_tail))
            ELSE triaged(agent_extract_findings(Str(RawLines(text))).val)
    IN handled(_collect_text(msg))

\* the handler of agent.py welcoming on every message that starts a session
agent_on_chat_or_review_welcomes_again(msg, greeted, llm_ok, o, rnd) ==
    LET welcome == IF msg.start THEN <<ChatMsg(<<WELCOME>>)>> ELSE <<>>
        after(r) == [r EXCEPT !.sent = welcome \o @]
    IN after(agent_chat_body(msg, llm_ok, o, rnd))

\* on_chat_or_review of agent.py: the welcome goes out before the text is looked at
agent_on_chat_or_review(msg, greeted, llm_ok, o, rnd) ==
    LET welcome == IF msg.start /\ msg.sender \notin greeted THEN <<ChatMsg(<<WELCOME>>)>> ELSE <<>>
        after(r) == [r EXCEPT !.sent = welcome \o @]
    IN after(agent_chat_body(msg, llm_ok, o, rnd))

\* the handler of either file
chat_handler(i, msg, greeted, llm_ok, o, rnd) ==
    IF i = "Agent" THEN on_chat_or_review(msg, o, rnd)
    ELSE agent_on_chat_or_review(msg, greeted, llm_ok, o, rnd)

-----------------------------------------------------------------------------
(* The gist bridge of Agent.py *)

PollOut(status, branch, lines, info, wm, posted) ==
    [status |-> status, branch |-> branch, lines |-> lines, info |-> info,
     watermark |-> wm, posted |-> posted]

\* f"{line1}\nSolution: {sol}" if sol else line1
with_solution(line1, sol) ==
    IF IsText(sol.val) THEN line1 \o <<"\n", "Solution:", " ">> \o sol.val.toks ELSE line1

\* lines 561-568 and 582-585: fix, remark and explanation of a findings payload
bridge_findings_lines(findings, lang, basic, o, rnd, branch) ==
    LET payload(fix, sol, line2) ==
            [exc |-> fix.exc \/ sol.exc \/ line2.exc,
             lines |-> IF fix.exc \/ sol.exc \/ line2.exc THEN <<>>
                       ELSE <<with_solution(fix.val, sol), <<line2.val>>>>,
             branch |-> branch,
             info |-> [findings |-> findings, qcalled |-> ~fix.exc, qlang |-> lang, qbasic |-> basic,
                       fix |-> fix, sol |-> sol, extractions |-> 1, composed |-> TRUE]]
        remarked(fix, line2) ==
            payload(fix,
                    IF fix.exc \/ line2.exc THEN NoCall
                    ELSE _llm_solution_text(findings, lang, o.sol_asi, o.sol_free),
                    line2)
    IN remarked(_concise_fix_or_summary(findings, lang, o.fix_asi, o.fix_free),
                _brainrot_quip_raw("Agent", lang, basic, rnd))

bridge_canned_lines(rnd, branch, n) ==
    [exc |-> FALSE,
     lines |-> <<<<"shut up and provide the error">>, <<_brainrot_quip_raw("Agent", None, FALSE, rnd).val>>>>,
     branch |-> branch,
     info |-> [Info0 EXCEPT !.qcalled = TRUE, !.extractions = n]]

\* lines 553-587: the payload for a request document
bridge_compose(data, o, rnd) ==
    LET extracted(lang, findings) ==
            IF findings # <<>>
            THEN bridge_findings_lines(findings, lang_or_guess(lang, findings),
                                       findings[1].file = "(unknown)", o, rnd, "envelope")
            ELSE bridge_canned_lines(rnd, "envelope", 1)
        triaged(findings) ==
            IF findings # <<>>
            THEN bridge_findings_lines(findings, _guess_lang_from_findings(findings),
                                       FALSE, o, rnd, "findings")
            ELSE bridge_canned_lines(rnd, "default", 1)
        composed(lang, log_tail, text_alt) ==
            IF lang.exc \/ log_tail.exc \/ text_alt.exc
            THEN [exc |-> TRUE, lines |-> <<>>, branch |-> "envelope", info |-> Info0]
            ELSE IF log_tail.val # <<>>
            THEN extracted(lang.val, _extract_findings(Str(log_tail.val)).val)
            ELSE IF search(GREET_WORDS, Plain(text_alt.val))
            THEN bridge_canned_lines(rnd, "greeting", 0)
            ELSE triaged(_extract_findings(Str(text_alt.val)).val)
    IN composed(envelope_lang(data), or_strip(data.log_tail), or_strip(data.text))

\* _gist_get_file: None when the request fails or the file is missing
_gist_get_file(doc, get_ok) == IF get_ok /\ doc # NoFile THEN doc ELSE NoFile

\* _gist_put_file: False without a request when GIST_TOKEN is unset
_gist_put_file(e, put_ok) == e.token /\ put_ok

\* the poll with the watermark written only once the response is posted
_poll_gist_requests_write_after_post(e, wm, doc, net, o, rnd) ==
    LET respond(ts, c) ==
            IF c.exc THEN PollOut("crash", c.branch, <<>>, c.info, wm, FALSE)
            ELSE IF _gist_put_file(e, net.put_ok)
            THEN PollOut("posted", c.branch, c.lines, c.info, ts, TRUE)
            ELSE PollOut("postfail", c.branch, c.lines, c.info, wm, TRUE)
        fetched(raw) ==
            IF raw = NoFile THEN PollOut("nofetch", "none", <<>>, Info0, wm, FALSE)
            ELSE IF raw.form # "json" THEN PollOut("unparseable", "none", <<>>, Info0, wm, FALSE)
            ELSE IF raw.ts <= wm THEN PollOut("stale", "none", <<>>, Info0, wm, FALSE)
            ELSE respond(raw.ts, bridge_compose(raw, o, rnd))
    IN IF ~e.req_gid THEN PollOut("unconfigured", "none", <<>>, Info0, wm, FALSE)
       ELSE fetched(_gist_get_file(doc, net.get_ok))

\* the poll with a request at the watermark taken as new
_poll_gist_requests_stale_inclusive(e, wm, doc, net, o, rnd) ==
    LET respond(ts, c) ==
            IF c.exc THEN PollOut("crash", c.branch, <<>>, c.info, ts, FALSE)
            ELSE IF _gist_put_file(e, net.put_ok)
            THEN PollOut("posted", c.branch, c.lines, c.info, ts, TRUE)
            ELSE PollOut("postfail", c.branch, c.lines, c.info, ts, TRUE)
        fetched(raw) ==
            IF raw = NoFile THEN PollOut("nofetch", "none", <<>>, Info0, wm, FALSE)
            ELSE IF raw.form # "json" THEN PollOut("unparseable", "none", <<>>, Info0, wm, FALSE)
            ELSE IF raw.ts < wm THEN PollOut("stale", "none", <<>>, Info0, wm, FALSE)
            ELSE respond(raw.ts, bridge_compose(raw, o, rnd))
    IN IF ~e.req_gid THEN PollOut("unconfigured", "none", <<>>, Info0, wm, FALSE)
       ELSE fetched(_gist_get_file(doc, net.get_ok))

\* _poll_gist_requests: net holds the outcomes of the two gist requests
_poll_gist_requests(e, wm, doc, net, o, rnd) ==
    LET respond(ts, c) ==
            IF c.exc THEN PollOut("crash", c.branch, <<>>, c.info, ts, FALSE)
            ELSE IF _gist_put_file(e, net.put_ok)
            THEN PollOut("posted", c.branch, c.lines, c.info, ts, TRUE)
            ELSE PollOut("postfail", c.branch, c.lines, c.info, ts, TRUE)
        fetched(raw) ==
            IF raw = NoFile THEN PollOut("nofetch", "none", <<>>, Info0, wm, FALSE)
            ELSE IF raw.form # "json" THEN PollOut("unparseable", "none", <<>>, Info0, wm, FALSE)
            ELSE IF raw.ts <= wm THEN PollOut("stale", "none", <<>>, Info0, wm, FALSE)
            ELSE respond(raw.ts, bridge_compose(raw, o, rnd))
    IN IF ~e.req_gid THEN PollOut("unconfigured", "none", <<>>, Info0, wm, FALSE)
       ELSE fetched(_gist_get_file(doc, net.get_ok))

-----------------------------------------------------------------------------
(* The agent as a whole: start-up, then chat messages or bridge polls *)

\* request documents carry a ts of at most MaxTs
MaxTs == 2

Senders == {"alice", "bob"}

Hello == Txt(<<"hello">>)

\* plain texts
ChatLines ==
    { <<>>,
      <<Txt(<<" ">>)>>,
      <<Txt(<<"Fixed">>)>>,
      <<Txt(<<" ", "ok", " ">>)>>,
      <<Txt(<<"ok", " ", "FAILED">>)>>,
      <<Txt(<<"works!", " ", "thanks">>)>>,
      <<Txt(<<"thanks">>)>>,
      <<Txt(<<"Thanks", " ", "FAILED">>)>>,
      <<Hello>>,
      <<Txt(<<"Hello", " ", "FAILED">>)>>,
      <<Txt(<<"whatever">>)>>,
      <<CcReturn>>,
      <<TbHeader, TxtCode, TxtZeroDiv>>,
      <<TsAssign>>,
      <<TxtFailed>> }

Cpp == JStr(<<Txt(<<"cpp">>)>>)

Rust == JStr(<<Txt(<<"rust">>)>>)

EnvContexts == {JAbsent, JObj(Cpp), JObj(Rust), JObj(JNum(5)), Cpp}

EnvLogTails ==
    {JAbsent, JStr(<<>>), JStr(<<Txt(<<" ">>)>>), JStr(<<CcReturn>>), JStr(<<TxtFailed>>),
     JStr(<<Hello>>), JStr(<<CcReturn, Txt(<<"thanks">>)>>), JStr(<<Txt(<<"thanks">>), CcReturn>>),
     JNum(5)}

EnvTexts == {JAbsent, JStr(<<Hello>>), JStr(<<TxtFailed>>), JNum(5)}

\* the context varies for two log tails; log_tail and text vary together without a context
Envelopes ==
    {Envelope(c, l, JAbsent) : c \in EnvContexts, l \in {JStr(<<CcReturn>>), JStr(<<TxtFailed>>)}}
    \cup {Envelope(JAbsent, l, x) : l \in EnvLogTails, x \in EnvTexts}

ChatTexts == {Plain(ls) : ls \in ChatLines} \cup Envelopes

\* texts of the messages that open a session
StartTexts ==
    {Plain(<<>>), Plain(<<Hello>>), Plain(<<CcReturn>>),
     Envelope(JAbsent, JStr(<<TxtFailed>>), JAbsent), Envelope(JAbsent, JNum(5), JAbsent)}

ChatMessages ==
    [sender : {"alice"}, start : {FALSE}, text : ChatTexts]
    \cup [sender : Senders, start : {TRUE}, text : StartTexts]

\* request documents of the gist
BridgeEnvelopes ==
    { Envelope(JAbsent, JStr(<<CcReturn>>), JAbsent),
      Envelope(JObj(Cpp), JStr(<<TxtFailed>>), JAbsent),
      Envelope(JAbsent, JStr(<<Hello>>), JAbsent),
      Envelope(JAbsent, JNum(5), JAbsent),
      Envelope(Cpp, JStr(<<CcReturn>>), JAbsent),
      Envelope(JAbsent, JAbsent, JStr(<<Hello>>)),
      Envelope(JAbsent, JAbsent, JStr(<<TxtFailed>>)),
      Envelope(JAbsent, JAbsent, JStr(<<TsAssign>>)),
      Envelope(JAbsent, JAbsent, JStr(<<Txt(<<"Fixed">>)>>)),
      Envelope(JAbsent, JAbsent, JStr(<<Txt(<<"Hello", " ", "FAILED">>)>>)) }

\* every envelope arrives with ts 1; two of them also with the later ts values
LaterEnvelopes ==
    { Envelope(JAbsent, JStr(<<CcReturn>>), JAbsent),
      Envelope(JAbsent, JNum(5), JAbsent) }

GistDocs ==
    {NoFile, Garbage}
    \cup {ReqDoc(1, b.context, b.log_tail, b.text) : b \in BridgeEnvelopes}
    \cup {ReqDoc(ts, b.context, b.log_tail, b.text) : ts \in 2..MaxTs, b \in LaterEnvelopes}
    \cup {ReqDoc(0, JAbsent, JStr(<<CcReturn>>), JAbsent)}

\* what the providers can do during one call, given the configuration
AsiFor(key) ==
    IF key THEN {AsiOutcome("allfail", 0, "neterr", "text", <<>>), AsiOutcome("ok", 0, "neterr", "text", ReplyPlain)}
    ELSE {AsiUnconfigured}

FreeFor(cfg) ==
    IF cfg THEN {FreeOutcome("non200", <<>>), FreeOutcome("ok", ReplyLoc)} ELSE {FreeUnconfigured}

\* agent.py has the primary provider alone and no explanation composer
OracleDraws(i, e) ==
    IF i = "Agent"
    THEN [fix_asi : AsiFor(e.asi_key), fix_free : FreeFor(e.free_llm),
          sol_asi : AsiFor(e.asi_key), sol_free : FreeFor(e.free_llm)]
    ELSE [fix_asi : AsiFor(e.asi_key), fix_free : {FreeUnconfigured},
          sol_asi : {AsiUnconfigured}, sol_free : {FreeUnconfigured}]

\* The configurations explored: every choice of the two providers for the chat
\* path (agent.py has the primary alone); for the bridge the unconfigured process,
\* and a configured bridge with or without token, with no provider or with both
Environments(i, p) ==
    IF p = "chat"
    THEN [asi_key : BOOLEAN, free_llm : (IF i = "Agent" THEN BOOLEAN ELSE {FALSE}),
          req_gid : {FALSE}, token : {FALSE}]
    ELSE {EnvNone}
         \cup {[asi_key |-> b, free_llm |-> b, req_gid |-> TRUE, token |-> t] : b, t \in BOOLEAN}

Init ==
    /\ impl \in Impls
    /\ ExtIdle
    /\ FixIdle
    /\ path \in (IF impl = "Agent" THEN {"chat", "bridge"} ELSE {"chat"})
    /\ env \in Environments(impl, path)
    /\ booted = FALSE
    /\ LLM_OK = FALSE
    /\ _GREETED_MEMORY = {}
    /\ _last_seen_ts = 0
    /\ gist_request = NoFile
    /\ attempts = <<>>
    /\ turn = Idle

\* _auth_check: LLM_OK = bool(pong)
_auth_check(a) ==
    /\ ~booted
    /\ booted' = TRUE
    /\ LLM_OK' = (env.asi_key /\ IsText(_asi_chat_once(a).val))
    /\ UNCHANGED <<impl, notSys, path, env, _GREETED_MEMORY, _last_seen_ts, gist_request, attempts, turn>>

Startup == \E a \in AsiFor(env.asi_key) : _auth_check(a)

\* one run of on_chat_or_review, up to its return or its exception
OnChatMessage(msg, o, rnd) ==
    LET r == chat_handler(impl, msg, _GREETED_MEMORY, LLM_OK, o, rnd)
    IN /\ turn' = [kind |-> "chat", msg |-> msg, o |-> o, res |-> r, before |-> _GREETED_MEMORY]
       /\ _GREETED_MEMORY' = IF impl = "agent" /\ msg.start
                             THEN _GREETED_MEMORY \cup {msg.sender}
                             ELSE _GREETED_MEMORY
       /\ UNCHANGED <<impl, notSys, path, env, booted, LLM_OK, _last_seen_ts, gist_request, attempts>>

\* the provider outcomes and random draws are those of the calls the run makes
ChatTurn ==
    /\ booted /\ path = "chat" /\ turn.kind = "idle"
    /\ \E msg \in ChatMessages :
          LET run(plan) ==
                  \E o \in (IF plan.composed THEN OracleDraws(impl, env) ELSE {Quiet}) :
                  \E rnd \in (IF plan.qcalled THEN QuipDraws(impl, plan.qlang, plan.qbasic) ELSE {Rnd0}) :
                     OnChatMessage(msg, o, rnd)
          IN run(chat_handler(impl, msg, _GREETED_MEMORY, LLM_OK, Quiet, Rnd0).info)

\* on_ack: an acknowledgement of the peer is dropped
on_ack ==
    /\ booted /\ path = "chat" /\ turn.kind = "idle"
    /\ UNCHANGED vars

\* _heartbeat: logs only
_heartbeat ==
    /\ booted /\ impl = "Agent" /\ turn.kind = "idle"
    /\ UNCHANGED vars

\* a client replaces the request document
ClientWrite(doc) ==
    /\ path = "bridge" /\ turn.kind = "idle"
    /\ gist_request' = doc
    /\ UNCHANGED <<impl, notSys, path, env, booted, LLM_OK, _GREETED_MEMORY, _last_seen_ts, attempts, turn>>

\* one run of the poll that does not keep the watermark it wrote
Poll_forgets_watermark(net, o, rnd) ==
    LET polled(r) ==
            /\ turn' = [kind |-> "poll", doc |-> gist_request, net |-> net, o |-> o, res |-> r,
                        before |-> _last_seen_ts]
            /\ _last_seen_ts' = _last_seen_ts
            /\ attempts' = IF r.posted
                           THEN Append(attempts, [doc |-> gist_request, ok |-> r.status = "posted"])
                           ELSE attempts
    IN /\ polled(_poll_gist_requests(env, _last_seen_ts, gist_request, net, o, rnd))
       /\ UNCHANGED <<impl, notSys, path, env, booted, LLM_OK, _GREETED_MEMORY, gist_request>>

\* one run of _poll_gist_requests
Poll(net, o, rnd) ==
    LET polled(r) ==
            /\ turn' = [kind |-> "poll", doc |-> gist_request, net |-> net, o |-> o, res |-> r,
                        before |-> _last_seen_ts]
            /\ _last_seen_ts' = r.watermark
            /\ attempts' = IF r.posted
                           THEN Append(attempts, [doc |-> gist_request, ok |-> r.status = "posted"])
                           ELSE attempts
    IN /\ polled(_poll_gist_requests(env, _last_seen_ts, gist_request, net, o, rnd))
       /\ UNCHANGED <<impl, notSys, path, env, booted, LLM_OK, _GREETED_MEMORY, gist_request>>

PollTurn ==
    /\ booted /\ path = "bridge" /\ impl = "Agent" /\ turn.kind = "idle"
    /\ \E get_ok \in BOOLEAN :
          LET run(plan) ==
                  \E put_ok \in (IF plan.posted /\ env.token THEN BOOLEAN ELSE {TRUE}) :
                  \E o \in (IF plan.info.composed THEN OracleDraws(impl, env) ELSE {Quiet}) :
                  \E rnd \in (IF plan.info.qcalled
                              THEN QuipDraws(impl, plan.info.qlang, plan.info.qbasic)
                              ELSE {Rnd0}) :
                     Poll([get_ok |-> get_ok, put_ok |-> put_ok], o, rnd)
          IN run(_poll_gist_requests(env, _last_seen_ts, gist_request,
                                     [get_ok |-> get_ok, put_ok |-> TRUE], Quiet, Rnd0))

\* the handler has returned; the event loop takes the next event
HandlerReturns ==
    /\ turn.kind # "idle"
    /\ turn' = Idle
    /\ UNCHANGED <<impl, notSys, path, env, booted, LLM_OK, _GREETED_MEMORY, _last_seen_ts,
                   gist_request, attempts>>

Next ==
    \/ Startup
    \/ ChatTurn
    \/ on_ack
    \/ _heartbeat
    \/ \E doc \in GistDocs : ClientWrite(doc)
    \/ PollTurn
    \/ HandlerReturns

Spec == Init /\ [][Next]_vars

-----------------------------------------------------------------------------
(* Claims about the extractor *)

Min(a, b) == IF a <= b THEN a ELSE b
Take(s, n) == SubSeq(s, 1, Min(n, Len(s)))

\* what one pattern family contributes for a text: its matches with a non-empty
\* file and a non-zero line, as findings
FamilyFindings(i, pat, ls) ==
    LET ms == IF i = "agent" THEN agent_finditer(pat, ls) ELSE finditer(pat, ls)
        ok == SelectSeq(ms, LAMBDA m : strip_file(m.file) # "" /\ m.line # 0)
    IN [k \in DOMAIN ok |-> [file |-> strip_file(ok[k].file), line |-> ok[k].line,
                             msg |-> collapse_ws(strip(ok[k].msg))]]

AllFamilies(i, ls) ==
    FamilyFindings(i, "cc", ls) \o FamilyFindings(i, "tb", ls) \o FamilyFindings(i, "ts", ls)

FirstFamily(i, ls) ==
    IF FamilyFindings(i, "cc", ls) # <<>> THEN FamilyFindings(i, "cc", ls)
    ELSE IF FamilyFindings(i, "tb", ls) # <<>> THEN FamilyFindings(i, "tb", ls)
    ELSE FamilyFindings(i, "ts", ls)

ExtReturned == ext_result.run /\ ~ext_result.exc /\ log_text # None

ExtOk == ext_result.run /\ ~ext_result.exc

\* the structured findings of the text of the call (none for None)
Structured == IF log_text = None THEN <<>> ELSE AllFamilies(impl, log_text.lines)

\* C11: every returned finding has a non-empty file and a line of at least 1; the
\* findings of the keyword fallback have file "(unknown)" and line 1; a structured
\* match with an empty file or with line 0 is not returned
C11_FileAndLinePresent ==
    ExtOk =>
        /\ \A k \in DOMAIN ext_result.val :
              /\ ext_result.val[k].file # ""
              /\ ext_result.val[k].line >= 1
        /\ Structured = <<>> =>
              \A k \in DOMAIN ext_result.val :
                  ext_result.val[k].file = "(unknown)" /\ ext_result.val[k].line = 1
        /\ Structured # <<>> =>
              \A k \in DOMAIN ext_result.val :
                  \E j \in DOMAIN Structured : ext_result.val[k] = Structured[j]

\* a text with a compiler-style line whose file is blank and one whose line is 0,
\* extracted to a non-empty result
C11_Witness ==
    /\ ExtOk /\ log_text # None
    /\ \E k \in DOMAIN log_text.lines : log_text.lines[k] = CcNoFile
    /\ \E k \in DOMAIN log_text.lines : log_text.lines[k] = CcLineZero
    /\ ext_result.val # <<>>

\* C12: at most 5 findings when a structured finding was collected, at most 3
\* from the keyword fallback, and the fallback only when no structured finding
\* was collected: a result never holds findings of both sorts
C12_AtMostFiveOrThree ==
    ExtOk =>
        IF Structured # <<>>
        THEN /\ Len(ext_result.val) <= 5
             /\ ext_result.val = Take(Structured, 5)
        ELSE /\ Len(ext_result.val) <= 3
             /\ \A k \in DOMAIN ext_result.val : ext_result.val[k].file = "(unknown)"

\* both limits are met: six structured lines give 5 findings, or four keyword
\* lines give 3
C12_Witness ==
    /\ ExtOk /\ log_text # None
    /\ \/ Len(Structured) > 5 /\ Len(ext_result.val) = 5
       \/ /\ Structured = <<>>
          /\ Len(SelectSeq(log_text.lines, LAMBDA l : l = TxtFailed)) > 3
          /\ Len(ext_result.val) = 3

\* C13: _extract_findings returns an empty sequence, without raising, for the
\* empty string and for None
C13_EmptyAndNone ==
    (ext_result.run /\ (log_text = None \/ log_text = Str(<<>>)))
        => ~ext_result.exc /\ ext_result.val = <<>>

\* C14: the message of every returned finding, structured or from the keyword
\* fallback, is stripped and has every run of white space collapsed to one blank
C14_MessagesNormalized ==
    ExtOk => \A k \in DOMAIN ext_result.val :
                 ext_result.val[k].msg = collapse_ws(strip(ext_result.val[k].msg))

-----------------------------------------------------------------------------
(* Claims about the composers *)

\* the provider's outcome holds usable text
PrimaryUsable(o) == o.kind = "ok" /\ o.body = "text" /\ strip(o.text) # <<>>
SecondaryUsable(o) == o.kind = "ok" /\ strip(o.text) # <<>>

AsiEvents == {"_asi_chat_once", "asi_http"}
FreeEvents == {"_free_llm_chat_once", "free_http"}

Count(tr, e) == Cardinality({i \in DOMAIN tr : tr[i] = e})

\* a composer of Agent.py has been called
CalledFix == fx_in.op = "fix" /\ impl = "Agent"
CalledSolution == fx_in.op = "solution" /\ impl = "Agent"

\* the provider cascade of the last call
LastCascade == IF fx_in.op = "fix" THEN fx_out.llm ELSE fx_out

\* C6: within one composer call the primary provider is consulted before the
\* secondary; the secondary is called at most once and only if the primary is
\* unconfigured, failed or returned empty text; the primary is never called after
\* the secondary; the table (fix) or absent result (explanation) is used only
\* after both produced no usable text.
C6_ProviderOrder ==
    (CalledFix \/ CalledSolution) =>
        LET tr == LastCascade.trace
        IN /\ Count(tr, "_free_llm_chat_once") <= 1
           /\ Count(tr, "free_http") <= 1
           /\ Count(tr, "_free_llm_chat_once") = 1 => ~PrimaryUsable(fx_in.asi)
           /\ \A i, j \in DOMAIN tr : (i < j /\ tr[i] \in FreeEvents) => tr[j] \notin AsiEvents
           /\ (CalledFix /\ fx_out.table) => (~PrimaryUsable(fx_in.asi) /\ ~SecondaryUsable(fx_in.free))
           /\ (CalledSolution /\ ~fx_out.exc /\ fx_out.val = None)
                  => (~PrimaryUsable(fx_in.asi) /\ ~SecondaryUsable(fx_in.free))

\* C6 witness: the primary provider was asked and failed, the secondary was asked
\* after it and failed too, and the table supplied the fix
C6_Witness ==
    /\ CalledFix
    /\ fx_out.table
    /\ Count(fx_out.llm.trace, "asi_http") >= 2
    /\ Count(fx_out.llm.trace, "free_http") = 1

\* C7: for a non-empty findings sequence _concise_fix_or_summary returns a
\* non-empty string and does not raise, whatever the two providers do.
C7_FixNeverFails ==
    (fx_in.op = "fix" /\ fx_in.findings # <<>>) => (~fx_out.exc /\ CharLen(fx_out.val) > 0)

\* C7 witness: the primary provider's requests all raise, the secondary's body
\* does not parse, and a fix is returned
C7_Witness ==
    /\ CalledFix
    /\ fx_in.asi.kind = "allfail" /\ fx_in.asi.fail = "neterr"
    /\ fx_in.free.kind = "unparseable"
    /\ ~fx_out.exc /\ CharLen(fx_out.val) > 0

\* The ordered table of C8: a rule matches when all keys of one of its
\* alternatives occur in the lower-case message
FixRules ==
    << [alts |-> {{"zerodivisionerror"}, {"division by zero"}},
        tip |-> "add a divisor==0 guard before the divide."],
       [alts |-> {{"control reaches end of non-void"}},
        tip |-> "ensure every path returns a value."],
       [alts |-> {{"undefined reference"}, {"ld returned 1 exit"}, {"linker"}},
        tip |-> "link missing obj/lib or implement the symbol."],
       [alts |-> {{"modulenotfounderror"}},
        tip |-> "pip install it / add to requirements.txt."],
       [alts |-> {{"cannot import name"}},
        tip |-> "use the moved symbol or pin compatible versions."],
       [alts |-> {{"nonetype"}, {"attributeerror", "none"}},
        tip |-> "guard for None or ensure the factory returns an instance."],
       [alts |-> {{"not defined"}, {"nameerror"}},
        tip |-> "define/import it before use."],
       [alts |-> {{"type mismatch"}, {"cannot convert"}, {"typeerror"}},
        tip |-> "cast/adjust signature or fix callsite type."],
       [alts |-> {{"assert"}, {"failed"}},
        tip |-> "fix the logic or update precondition."],
       [alts |-> {{}},
        tip |-> "fix the top one; others will fall in line."] >>

RuleMatches(r, msg) == \E alt \in r.alts : \A k \in alt : contains(msg, k)

\* the rules of the table that match a message
MatchingRules(msg) == {i \in DOMAIN FixRules : RuleMatches(FixRules[i], msg)}

FirstRule(msg) == CHOOSE i \in MatchingRules(msg) : \A j \in MatchingRules(msg) : i <= j

BothQuiet == ~PrimaryUsable(fx_in.asi) /\ ~SecondaryUsable(fx_in.free)

LastTok(toks) == toks[Len(toks)]

\* C8: when both generation tiers yield nothing, the fix line is the one of the
\* earliest rule, in the order of the table, that matches the lower-case message
\* of the top finding.
C8_FirstMatchWins ==
    (CalledFix /\ BothQuiet) =>
        /\ fx_out.table
        /\ LastTok(fx_out.val) = FixRules[FirstRule(lower(fx_in.findings[1].msg))].tip

\* C8 witness: a message that matches several rules got the tip of the earliest
C8_Witness ==
    /\ CalledFix /\ BothQuiet
    /\ {8, 9} \subseteq MatchingRules(lower(fx_in.findings[1].msg))
    /\ FirstRule(lower(fx_in.findings[1].msg)) = 8
    /\ LastTok(fx_out.val) = "cast/adjust signature or fix callsite type."

\* C9 (as claimed): with the oracle absent for both tiers, every top finding whose
\* lower-case message contains "modulenotfounderror" gets the "not installed" tip.
C9_ModuleNotFoundTip ==
    (fx_in.op = "fix" /\ BothQuiet /\ contains(lower(fx_in.findings[1].msg), "modulenotfounderror"))
        => LastTok(fx_out.val) = "pip install it / add to requirements.txt."

-----------------------------------------------------------------------------
(* Claims about the bridge and the chat handlers *)

\* the post attempts made before the handler run in progress
PriorAttempts ==
    IF turn.kind = "poll" /\ turn.res.posted THEN SubSeq(attempts, 1, Len(attempts) - 1) ELSE attempts

\* the last post before this poll was for the document the poll fetches, and failed
LastPostFailed ==
    /\ turn.kind = "poll"
    /\ turn.net.get_ok
    /\ turn.doc.form = "json"
    /\ PriorAttempts # <<>>
    /\ PriorAttempts[Len(PriorAttempts)] = [doc |-> turn.doc, ok |-> FALSE]

\* C2: a poll that finds in the request document the request whose response post
\* failed composes a response and posts it again
C2_FailedPostRetried == LastPostFailed => turn.res.posted

\* the chat messages of a handler run, in the order sent
ChatSent(r) == SelectSeq(r.sent, LAMBDA m : m.type = "chat")

NonEmptyChat == turn.kind = "chat" /\ ~IsEmpty(_collect_text(turn.msg))

\* C3: a handler run that returns for a non-empty inbound message has sent exactly
\* two chat messages, part one and then the remark alone, whichever message of a
\* session it handles
C3_ExactlyTwoChatMessages ==
    (NonEmptyChat /\ turn.res.status = "done") =>
        /\ Len(ChatSent(turn.res)) = 2
        /\ Len(ChatSent(turn.res)[2].content) = 1

\* C4: the handler has no crashing path: every run ends with a two-part reply or
\* ignores the input, and empty text sends nothing and changes no state
C4_NoCrashingPath ==
    turn.kind = "chat" =>
        /\ turn.res.status \in {"done", "ignored"}
        /\ turn.res.status = "done" => Len(ChatSent(turn.res)) >= 2
        /\ IsEmpty(_collect_text(turn.msg)) =>
              /\ turn.res.sent = <<>>
              /\ _GREETED_MEMORY = turn.before

\* a log_tail that is a string with something besides white space
HasLogTail(text) ==
    /\ text.form = "json"
    /\ text.log_tail.t = "str"
    /\ strip_text(text.log_tail.lines) # <<>>

\* the text the plain triage looks at: the envelope's text field when it has one
TriageText(text) ==
    IF text.form = "json" /\ text.text.t = "str" /\ strip_text(text.text.lines) # <<>>
    THEN Plain(strip_text(text.text.lines))
    ELSE text

\* the branch the ordered conditions of C5 select
FirstBranch(text) ==
    IF _looks_like_success(text) THEN {"success"}
    ELSE IF search(PRAISE_WORDS, text) THEN {"praise"}
    ELSE IF HasLogTail(text) THEN {"envelope"}
    ELSE IF _extract_findings(Str(RawLines(TriageText(text)))).val # <<>> THEN {"findings"}
    ELSE {"greeting", "default"}

\* C5: in Agent.py every non-empty text is handled by the first of the five
\* branches whose condition holds, and the success and praise branches neither
\* extract nor call a provider
C5_FiveOrderedBranches ==
    (NonEmptyChat /\ impl = "Agent") =>
        /\ turn.res.status = "done"
        /\ turn.res.branch \in FirstBranch(_collect_text(turn.msg))
        /\ turn.res.branch \in {"success", "praise"} =>
              /\ turn.res.info.extractions = 0
              /\ ~turn.res.info.composed

\* a handler run in progress that composed a findings reply
ChatComposed ==
    /\ turn.kind = "chat" /\ impl = "Agent"
    /\ turn.res.status = "done" /\ turn.res.info.composed

PollComposed ==
    /\ turn.kind = "poll"
    /\ turn.res.status \in {"posted", "postfail"} /\ turn.res.info.composed

BothUnusable(o) == ~PrimaryUsable(o.sol_asi) /\ ~SecondaryUsable(o.sol_free)

SolutionSegment(sol) == <<"Solution:", " ">> \o sol.val.toks

\* C10: the explanation is absent exactly when neither provider gave usable text;
\* then part one is the fix line alone, and otherwise part one carries the text
\* after "Solution: " (a second segment in chat, a suffix after a line break on
\* the bridge)
C10_ExplanationAbsentOrAppended ==
    /\ ChatComposed =>
          /\ (turn.res.info.sol.val = None) <=> BothUnusable(turn.o)
          /\ turn.res.sent[1].content =
                IF turn.res.info.sol.val = None
                THEN <<turn.res.info.fix.val>>
                ELSE <<turn.res.info.fix.val, SolutionSegment(turn.res.info.sol)>>
    /\ PollComposed =>
          /\ (turn.res.info.sol.val = None) <=> BothUnusable(turn.o)
          /\ turn.res.lines[1] =
                IF turn.res.info.sol.val = None
                THEN turn.res.info.fix.val
                ELSE turn.res.info.fix.val \o <<"\n">> \o SolutionSegment(turn.res.info.sol)

\* both providers are configured, both fail for the explanation, and the reply goes out
C10_Witness ==
    /\ ChatComposed
    /\ env.asi_key /\ env.free_llm
    /\ turn.res.info.fix.val # <<>>
    /\ turn.res.info.sol.val = None
    /\ Len(turn.res.sent) = 3

\* a chat turn of either file that sent a findings reply
ChatFindings == turn.kind = "chat" /\ turn.res.status = "done" /\ turn.res.info.composed

\* the extraction of the run fell back to the keyword scan
FellBack == turn.res.info.findings[1].file = "(unknown)"

\* part two of the reply of the run in progress: the last chat message's one
\* segment, or the second line of the bridge payload
PartTwo ==
    IF turn.kind = "chat"
    THEN ChatSent(turn.res)[Len(ChatSent(turn.res))].content[1]
    ELSE turn.res.lines[2]

\* C15: on every path to a findings reply (chat envelope, chat plain text, bridge
\* log_tail, bridge free text), when the top finding has file "(unknown)" the
\* remark is selected with basic = true and part two is the basic remark
C15_FallbackRemarkIsBasic ==
    ((ChatFindings \/ PollComposed) /\ FellBack) =>
        /\ turn.res.info.qbasic
        /\ PartTwo \in {<<QUIPS_BRAINROT("basic")[k]>> : k \in DOMAIN QUIPS_BRAINROT("basic")}

\* a chat turn of Agent.py that answered in one of the fixed-line branches:
\* declared success, praise, no findings (in an envelope's log or in the text),
\* greeting, default
ChatCanned ==
    /\ turn.kind = "chat" /\ impl = "Agent"
    /\ turn.res.status = "done"
    /\ turn.res.branch \in {"success", "praise", "envelope", "greeting", "default"}
    /\ ~turn.res.info.composed

Remarks(table) == {<<table[k]>> : k \in DOMAIN table}

\* C16 as stated: in the fixed-line branches part two is always a remark of the
\* "default" table
C16_RemarkFromGenericTable ==
    ChatCanned => PartTwo \in Remarks(QUIPS_BRAINROT("default"))

\* C16: in the fixed-line branches the remark is selected with no language and
\* basic = false, and part two is a remark of the "default" table or, when the
\* italian table was blended in, of the italian table
C16_RemarkFromGenericOrFlavorTable ==
    ChatCanned =>
        /\ turn.res.info.qcalled /\ turn.res.info.qlang = None /\ ~turn.res.info.qbasic
        /\ PartTwo \in Remarks(QUIPS_BRAINROT("default")) \cup Remarks(QUIPS_BRAINROT("italian"))
        /\ Len(ChatSent(turn.res)) = 2

\* a praise message answered with a remark of the italian table
C16_Witness ==
    /\ ChatCanned
    /\ turn.res.branch = "praise"
    /\ PartTwo \in Remarks(QUIPS_BRAINROT("italian"))

\* no provider gives usable text to either composer
NoOracle ==
    /\ ~PrimaryUsable(turn.o.fix_asi) /\ ~SecondaryUsable(turn.o.fix_free)
    /\ BothUnusable(turn.o)

\* a chat turn of Agent.py on an envelope whose log_tail is the one diagnostic
\* main.c:1 "control reaches end of non-void function", with no language hint or
\* the hint "cpp", and a text field that is absent or a string
ReturnEnvelope ==
    /\ turn.kind = "chat" /\ impl = "Agent"
    /\ turn.msg.text.form = "json"
    /\ turn.msg.text.log_tail = JStr(<<CcReturn>>)
    /\ turn.msg.text.context \in {JAbsent, JObj(Cpp)}
    /\ turn.msg.text.text.t \in {"absent", "str"}

ReturnPartOne ==
    <<<<"main.c", ":", LineStr(1)>> \o Dash
      \o <<"function ghosted the return --", " ", "ensure every path returns a value.">>>>

BasicRemarkCall ==
    /\ ChatFindings \/ PollComposed
    /\ turn.res.info.qcalled /\ turn.res.info.qbasic

\* C18: when _brainrot_quip_raw is called with basic = true, whatever the
\* language argument (None, a table key, another string, a number), the list the
\* remark is chosen from is the one-entry basic table for either outcome of the
\* blend draw and every choice from it is "Negative Aura", which is part two
C18_BasicRemarkWhateverLanguage ==
    BasicRemarkCall =>
        /\ \A mix \in BOOLEAN :
              LET picks == quip_picks(impl, turn.res.info.qlang, TRUE, mix)
              IN /\ picks = Ret(<<"Negative Aura">>)
                 /\ \A k \in DOMAIN picks.val :
                       _brainrot_quip_raw(impl, turn.res.info.qlang, TRUE, [mix |-> mix, k |-> k])
                           = Ret("Negative Aura")
        /\ PartTwo = <<"Negative Aura">>

\* the basic remark was selected with a language that is no key of the table
C18_Witness ==
    /\ BasicRemarkCall
    /\ turn.res.info.qlang = S(<<"rust">>)
    /\ PartTwo = <<"Negative Aura">>

\* the poll recorded in t passed the check ts > watermark (line 549)
PollPassed(t) == t.kind = "poll" /\ t.res.status \in {"posted", "postfail", "crash"}

\* C19: _last_seen_ts changes only in a step that is a run of
\* _poll_gist_requests passing the check; such a run found a ts above the
\* watermark and leaves the watermark at that ts before any other handler runs;
\* so the requests the polls answered have strictly increasing ts: no request
\* passes the check twice
C19_WatermarkSingleWriter ==
    /\ [][/\ _last_seen_ts' # _last_seen_ts => (turn.kind = "idle" /\ PollPassed(turn'))
          /\ (turn.kind = "idle" /\ PollPassed(turn')) =>
                /\ turn'.doc.ts > _last_seen_ts
                /\ _last_seen_ts' = turn'.doc.ts
                /\ turn'.before = _last_seen_ts]_vars
    /\ [](\A i, j \in DOMAIN attempts : i < j => attempts[i].doc.ts < attempts[j].doc.ts)

\* a second poll of a request already answered: it finds ts = watermark and stops
C19_Witness ==
    /\ turn.kind = "poll" /\ turn.res.status = "stale"
    /\ attempts # <<>>
    /\ attempts[Len(attempts)].doc = turn.doc
    /\ turn.doc.ts = _last_seen_ts

\* a call of _llm_solution_text that returned text
SolutionReturned ==
    /\ fx_in.op = "solution"
    /\ ~fx_out.exc
    /\ fx_out.val # None

\* the reply the call received: the primary provider's, or else the secondary's
SolutionReply == IF IsText(fx_out.primary) THEN fx_out.primary.toks ELSE fx_out.secondary.toks

\* no whitespace but single blanks between other tokens
Collapsed(toks) ==
    /\ \A k \in DOMAIN toks : toks[k] \in WS => toks[k] = " "
    /\ \A k \in 1..(Len(toks) - 1) : ~(toks[k] = " " /\ toks[k + 1] = " ")

\* p holds the first characters of t: the tokens of t in order, the last one
\* whole or cut short
CharPrefix(p, t) ==
    /\ p # <<>> /\ Len(p) <= Len(t)
    /\ \A k \in 1..(Len(p) - 1) : p[k] = t[k]
    /\ \/ p[Len(p)] = t[Len(p)]
       \/ \E n \in 1..(TokLen(t[Len(p)]) - 1) : p[Len(p)] = XS[n] /\ (\E m \in DOMAIN XS : t[Len(p)] = XS[m])

\* C20: the text _llm_solution_text returns has its whitespace runs collapsed;
\* it is the normalized reply itself when that has at most 350 characters, and
\* otherwise the first 350 characters of the normalized reply followed by one
\* ellipsis
C20_TruncatedAt350 ==
    SolutionReturned =>
        LET norm == collapse_ws(strip(SolutionReply))
            out == fx_out.val.toks
        IN /\ Collapsed(out)
           /\ IF CharLen(norm) > 350
              THEN /\ out[Len(out)] = ELLIPSIS
                   /\ CharLen(SubSeq(out, 1, Len(out) - 1)) = 350
                   /\ CharPrefix(SubSeq(out, 1, Len(out) - 1), norm)
                   /\ \A k \in 1..(Len(out) - 1) : out[k] # ELLIPSIS
              ELSE /\ out = norm
                   /\ \A k \in DOMAIN out : out[k] # ELLIPSIS

\* a reply of 351 characters comes back as 350 characters and the ellipsis, the
\* last word cut short
C20_Witness ==
    /\ SolutionReturned
    /\ CharLen(collapse_ws(strip(SolutionReply))) = 351
    /\ Len(fx_out.val.toks) > 1
    /\ fx_out.val.toks[Len(fx_out.val.toks)] = ELLIPSIS
    /\ fx_out.val.toks[Len(fx_out.val.toks) - 1] = XS[9]

\* the run recorded in t fetched a request document that parses and whose ts
\* is above the watermark wm
FreshRequest(t, wm) ==
    /\ env.req_gid
    /\ t.net.get_ok
    /\ t.doc.form = "json"
    /\ t.doc.ts > wm

\* C21: a poll that fetched a parseable document with ts above the watermark
\* sets the watermark to that ts whether or not the response is then composed
\* and posted; every other poll (bridge not configured, fetch failure,
\* unparseable document, ts 0 or ts <= watermark) leaves the watermark alone and
\* attempts no post; no other step changes it; it never decreases
C21_WatermarkAdvancesOnNewTs ==
    [][/\ (turn.kind = "idle" /\ turn'.kind = "poll") =>
             IF FreshRequest(turn', _last_seen_ts)
             THEN /\ _last_seen_ts' = turn'.doc.ts
                  /\ turn'.res.status \in {"posted", "postfail", "crash"}
             ELSE /\ _last_seen_ts' = _last_seen_ts
                  /\ turn'.res.status \in {"unconfigured", "nofetch", "unparseable", "stale"}
                  /\ ~turn'.res.posted
                  /\ attempts' = attempts
       /\ ~(turn.kind = "idle" /\ turn'.kind = "poll") => _last_seen_ts' = _last_seen_ts
       /\ _last_seen_ts' >= _last_seen_ts]_vars

\* the watermark moved to the request's ts although the post of the response failed
C21_Witness ==
    /\ turn.kind = "poll"
    /\ turn.res.status = "postfail"
    /\ turn.before < turn.doc.ts
    /\ _last_seen_ts = turn.doc.ts

\* C22: the requests for which a response post was attempted have strictly
\* increasing ts, so there is at most one attempt per ts; none of them lies above
\* the watermark; and a poll that finds a request whose ts is at or below a ts
\* already seen attempts no post
C22_OnePostPerTs ==
    /\ \A i, j \in DOMAIN attempts : i < j => attempts[i].doc.ts < attempts[j].doc.ts
    /\ \A i \in DOMAIN attempts : attempts[i].doc.ts <= _last_seen_ts
    /\ (turn.kind = "poll" /\ turn.doc.form = "json" /\ turn.doc.ts <= turn.before) =>
          /\ ~turn.res.posted
          /\ turn.res.lines = <<>>
    /\ (turn.kind = "poll" /\ turn.res.posted) =>
          /\ attempts[Len(attempts)].doc = turn.doc
          /\ \A i \in 1..(Len(attempts) - 1) : attempts[i].doc.ts < turn.doc.ts

\* two requests were answered in turn, and a later poll finds a request with
\* the ts of the first one
C22_Witness ==
    /\ Len(attempts) = 2
    /\ turn.kind = "poll" /\ turn.net.get_ok
    /\ turn.doc.form = "json"
    /\ turn.doc.ts = attempts[1].doc.ts
    /\ ~turn.res.posted

\* the chat message that carries the envelope of a request document
AsChatMessage(doc) ==
    [sender |-> "alice", start |-> FALSE, text |-> Envelope(doc.context, doc.log_tail, doc.text)]

\* the segments of a chat message as one text, a line break between them
RECURSIVE JoinSegments(_)
JoinSegments(segs) ==
    IF segs = <<>> THEN <<>>
    ELSE IF Len(segs) = 1 THEN segs[1]
    ELSE segs[1] \o <<"\n">> \o JoinSegments(Tail(segs))

\* the two parts of the reply of a run of on_chat_or_review
ChatTwoParts(c) ==
    IF Len(ChatSent(c)) = 2
    THEN <<JoinSegments(ChatSent(c)[1].content), ChatSent(c)[2].content[1]>>
    ELSE <<>>

\* a poll of the bridge that answered its request
PollAnswered == turn.kind = "poll" /\ turn.res.status \in {"posted", "postfail"}

\* C23: for the envelope of an answered bridge request, the chat handler of
\* Agent.py, given the same provider outcomes and the same random draws, takes a
\* reply branch with the same basic flag and the same language for the remark,
\* and its two parts are the two lines of the bridge payload
C23_BridgeMatchesChat ==
    PollAnswered =>
        LET same(c0) ==
                /\ c0.status = "done"
                /\ c0.info.composed = turn.res.info.composed
                /\ c0.info.qbasic = turn.res.info.qbasic
                /\ c0.info.qlang = turn.res.info.qlang
                /\ \A rnd \in QuipDraws("Agent", turn.res.info.qlang, turn.res.info.qbasic) :
                      ChatTwoParts(on_chat_or_review(AsChatMessage(turn.doc), turn.o, rnd))
                          = bridge_compose(turn.doc, turn.o, rnd).lines
        IN same(on_chat_or_review(AsChatMessage(turn.doc), turn.o, Rnd0))

\* the number of welcome messages a handler run sent
Welcomes(r) == Cardinality({k \in DOMAIN r.sent : r.sent[k] = ChatMsg(<<WELCOME>>)})

\* C24: in agent.py the memory starts empty; a handler run sends the welcome,
\* once and before anything else, exactly when its message starts a session and
\* its sender is not in _GREETED_MEMORY, and then adds that sender; no other
\* step changes the memory. So the memory only grows, it holds exactly the
\* senders that were sent the welcome, and no sender is sent it twice
C24_WelcomeOncePerSender ==
    /\ _GREETED_MEMORY = {}
    /\ [][impl = "agent" =>
            /\ (turn.kind = "idle" /\ turn'.kind = "chat") =>
                  IF turn'.msg.start /\ turn'.msg.sender \notin _GREETED_MEMORY
                  THEN /\ Welcomes(turn'.res) = 1
                       /\ turn'.res.sent[1] = ChatMsg(<<WELCOME>>)
                       /\ _GREETED_MEMORY' = _GREETED_MEMORY \cup {turn'.msg.sender}
                  ELSE /\ Welcomes(turn'.res) = 0
                       /\ _GREETED_MEMORY' = _GREETED_MEMORY
            /\ ~(turn.kind = "idle" /\ turn'.kind = "chat") => _GREETED_MEMORY' = _GREETED_MEMORY
            /\ _GREETED_MEMORY \subseteq _GREETED_MEMORY']_vars

\* a sender already welcomed starts a session again and gets no second
\* welcome, while the other sender is still unknown
C24_Witness ==
    /\ impl = "agent"
    /\ turn.kind = "chat" /\ turn.msg.start
    /\ turn.msg.sender \in turn.before
    /\ Welcomes(turn.res) = 0
    /\ _GREETED_MEMORY = {turn.msg.sender}

====
